---------------------------- MODULE Spec2Model ----------------------------
(***************************************************************************)
(* Model of the poker replay component (ReplaySection.tsx): the hand       *)
(* record held in component state, the two cursors, the view mode, the     *)
(* stacks/deltas refreshed by an effect, and the values derived during a   *)
(* render (fold / all-in flags, board cards, pots, winner summary).        *)
(*                                                                         *)
(* Conventions.  Player ids are the raw zero-based indices (the keys of    *)
(* playerNames, "0", "1", ...); parseInt(pid) + 1 is the key of the money  *)
(* tables.  Cursors are zero-based as in the code; TLA+ sequences are      *)
(* one-based, so the code's list[i] is list[i + 1] here.  A JavaScript     *)
(* object is a function whose DOMAIN is the set of keys present.  The two   *)
(* display toggles (showPlayerCards, showPots) change no derived value and *)
(* are left out.                                                           *)
(***************************************************************************)
EXTENDS Integers, Sequences, FiniteSets, TLC

(***************************************************************************)
(* Bounds of the model.                                                    *)
(***************************************************************************)
\* longest action log of a hand of the wager family
MaxActions == 2
\* largest number of rounds of a hand of the board family
MaxBoardRounds == 5

(***************************************************************************)
(* Program constants.                                                      *)
(***************************************************************************)
\* `|| 10000`: the starting money used when the entry is absent (or 0)
DefaultMoney == 10000

\* an optional value is a sequence of length 0 (null / undefined) or 1
NoGame == << >>
NoMoney == << >>
NoError == "null"

Players == {0, 1}

(***************************************************************************)
(* Helpers on sequences and maps.                                          *)
(***************************************************************************)
Min(a, b) == IF a < b THEN a ELSE b

Max(a, b) == IF a > b THEN a ELSE b

\* the concatenation of a sequence of sequences
RECURSIVE Concat(_)
Concat(ss) == IF ss = << >> THEN << >> ELSE Head(ss) \o Concat(Tail(ss))

\* the elements of a finite set of integers in ascending order: the order in
\* which Object.keys enumerates integer-like keys
RECURSIVE SortedKeys(_)
SortedKeys(S) ==
  IF S = {} THEN << >>
  ELSE LET m == CHOOSE x \in S : \A y \in S : x <= y
       IN  <<m>> \o SortedKeys(S \ {m})

\* obj[k] = v on a JavaScript object
Put(obj, k, v) == [x \in (DOMAIN obj) \cup {k} |-> IF x = k THEN v ELSE obj[x]]

\* obj[k] || d : d when the key is absent or its value is 0 (falsy)
OrDefault(obj, k, d) == IF k \in DOMAIN obj /\ obj[k] # 0 THEN obj[k] ELSE d

EmptyObj == [x \in {} |-> 0]

\* the PlayerId adapter: parseInt(pid) + 1
NumericPid(pid) == pid + 1



(***************************************************************************)
(* The hand records given to the component.  A record is built from the    *)
(* moves of each round (player, action token, amount): every action gets   *)
(* its timestamp and the pot snapshot after it, every round its bets       *)
(* mapping (amount wagered in the round, one entry per player), and        *)
(* playerMoney follows from the wagers and the winner of the pot.          *)
(***************************************************************************)
Mv(p, a, n) == [player |-> p, action |-> a, amount |-> n]

\* the moves a player can make in the modelled hands
Moves ==
  {Mv(p, "FOLD", 0) : p \in Players} \cup {Mv(p, "CHECK", 0) : p \in Players}
    \cup {Mv(p, "CALL", 20) : p \in Players} \cup {Mv(p, "BET", 20) : p \in Players}
    \cup {Mv(p, "RAISE", 40) : p \in Players} \cup {Mv(p, "ALL-IN", 40) : p \in Players}

\* the chips a move puts into the pot
Wager(m) == IF m.action \in {"CALL", "BET", "RAISE", "ALL-IN"} THEN m.amount ELSE 0

RECURSIVE WagerSum(_)
WagerSum(ms) == IF ms = << >> THEN 0 ELSE Wager(Head(ms)) + WagerSum(Tail(ms))

RECURSIVE WagerOf(_, _)
WagerOf(p, ms) ==
  IF ms = << >> THEN 0
  ELSE (IF Head(ms).player = p THEN Wager(Head(ms)) ELSE 0) + WagerOf(p, Tail(ms))

FoldedIn(ms) == {ms[i].player : i \in {j \in DOMAIN ms : ms[j].action = "FOLD"}}

\* the pot snapshot recorded after the g-th move of the hand
PotsAfter(flat, g) ==
  LET done == SubSeq(flat, 1, g)
      cum  == WagerSum(done)
  IN  IF cum = 0 THEN << >>
      ELSE <<[id |-> 0, amount |-> cum, eligible_players |-> Players \ FoldedIn(done)]>>

\* the action event of the j-th move of a round that starts after `off` moves
MkAction(flat, off, j, tsGlobal) ==
  LET m == flat[off + j]
  IN  [player |-> m.player, action |-> m.action, amount |-> m.amount,
       timestamp |-> IF tsGlobal THEN off + j ELSE j,
       pot_after_action |-> WagerSum(SubSeq(flat, 1, off + j)),
       total_side_pots_after_action |-> PotsAfter(flat, off + j)]

\* the round holding the moves from+1 .. to of the hand
MkRound(flat, from, to, tsGlobal) ==
  [pot |-> WagerSum(SubSeq(flat, 1, to)),
   bets |-> [p \in Players |-> WagerOf(p, SubSeq(flat, from + 1, to))],
   action_sequence |-> [j \in 1..(to - from) |-> MkAction(flat, from, j, tsGlobal)]]

\* the rounds of a hand whose moves are cut into n rounds at cut[1..n-1]
MkRounds(flat, n, cut, tsGlobal) ==
  [r \in 1..n |->
     MkRound(flat, IF r = 1 THEN 0 ELSE cut[r - 1],
             IF r = n THEN Len(flat) ELSE cut[r], tsGlobal)]

\* playerMoney: players in startPresent start with 40 (entry present), the
\* others with the default (entry absent); finalMoney is what the hand
\* leaves each player, recorded for the players in finalPresent
MkMoney(flat, winner, startPresent, finalPresent) ==
  LET start(p) == IF p \in startPresent THEN 40 ELSE DefaultMoney
      final(p) == start(p) - WagerOf(p, flat) + (IF p = winner THEN WagerSum(flat) ELSE 0)
  IN  <<[startingMoney |-> [k \in {NumericPid(p) : p \in startPresent} |-> start(k - 1)],
         finalMoney |-> [k \in {NumericPid(p) : p \in finalPresent} |-> final(k - 1)]]>>

MkGame(rounds, money) ==
  [rounds |-> rounds, playerNames |-> Players, finalBoard |-> <<11, 12, 13, 14, 15>>,
   playerMoney |-> money]

SeqsUpTo(S, n) == UNION {[1..m -> S] : m \in 0..n}

\* the ways to cut a log of length len into n rounds (rounds may be empty)
Cuts(len, n) ==
  {c \in [1..(n - 1) -> 0..len] : \A i \in 1..(n - 2) : c[i] <= c[i + 1]}

\* wager family: every log of at most MaxActions moves, cut into one or two
\* rounds; player 0 starts with 40 and wins the pot
WagerGames ==
  {MkGame(MkRounds(flat, n, c, TRUE), MkMoney(flat, 0, {0}, Players)) :
     <<flat, n, c>> \in
       UNION {UNION {{<<f, k, c>> : c \in Cuts(Len(f), k)} : k \in 1..2} :
                f \in SeqsUpTo(Moves, MaxActions)}}

\* money family: two fixed logs, every winner, every combination of present
\* and absent money entries, and a record without playerMoney
MoneyLogs ==
  {<<Mv(0, "CHECK", 0), Mv(1, "CHECK", 0)>>, <<Mv(0, "BET", 20), Mv(1, "CALL", 20)>>}

MoneyGames ==
  {MkGame(MkRounds(flat, 1, << >>, TRUE), MkMoney(flat, w, sp, fp)) :
     <<flat, w, sp, fp>> \in MoneyLogs \X Players \X (SUBSET Players) \X (SUBSET Players)}
    \cup {MkGame(MkRounds(flat, 1, << >>, TRUE), NoMoney) : flat \in MoneyLogs}

\* board family: hands of 0..MaxBoardRounds rounds of one CHECK each, with
\* timestamps counted over the hand or restarting in every round
BoardGames ==
  {MkGame(MkRounds([i \in 1..n |-> Mv(i % 2, "CHECK", 0)], n, [i \in 1..(n - 1) |-> i], g),
          MkMoney(<< >>, 0, Players, Players)) :
     <<n, g>> \in (0..MaxBoardRounds) \X BOOLEAN}

GameRecords == WagerGames \cup MoneyGames \cup BoardGames

(***************************************************************************)
(* Component state (the useState hooks of ReplaySection).                  *)
(***************************************************************************)
VARIABLES
  gameData,          \* NoGame or <<hand record>>
  actionList,        \* the flattened action list
  currentActionIdx,  \* action cursor (zero-based)
  currentRoundIdx,   \* round cursor (zero-based)
  playerStacks,      \* stacks as last set by the stack/delta effect
  playerDeltas,      \* deltas as last set by the stack/delta effect
  viewMode,          \* "action" or "round"
  error,             \* NoError or the message of the error banner
  fetchState,        \* "mounted", "awaiting" (request in flight) or "done"
  pending            \* the effects whose dependencies changed in the last render

\* what an operation of the component raised ("none": nothing was raised)
VARIABLES thrown

\* State of the performance chart (the useState hooks of UserPerformanceChart
\* and the values its callbacks compute).
VARIABLES
  performanceData,   \* the score series of every user, in Object.keys order
  stats,             \* the IterationStats computed from performanceData
  interestingGames,  \* the InterestingGame list
  sampleInterval,    \* the sample interval of the chart
  downsampled,       \* the downsampled series of every user (chart memo)
  zoomState,         \* left and right of the zoom range, << >> for dataMin / dataMax
  applied            \* which computations have been applied to performanceData

chartVars == <<performanceData, stats, interestingGames, sampleInterval, downsampled,
               zoomState, applied>>

\* left: 'dataMin', right: 'dataMax'
NoZoom == [left |-> << >>, right |-> << >>]

\* useState({}), useState([]), useState(1)
ChartIdle ==
  /\ performanceData = << >>
  /\ stats = << >>
  /\ interestingGames = << >>
  /\ sampleInterval = 1
  /\ downsampled = << >>
  /\ zoomState = NoZoom
  /\ applied = {}

\* no game id, no job id
NoId == "none"

\* The fetches of the two pages.  A fetch in flight is held with the HTTP
\* status its response will carry: [id |-> requested id, status |-> 200 or
\* the status of the failure].
VARIABLES
  route,             \* the page shown: "replay" (ReplaySection) or "job" (chart)
  gameId,            \* the gameId prop of ReplaySection
  gameFetches,       \* get_game_data requests in flight
  jobId,             \* the jobId prop of UserPerformanceChart
  jobFetches,        \* get_user_performance requests in flight
  chartError,        \* the error state of UserPerformanceChart
  loading            \* the loading state of UserPerformanceChart

fetchVars == <<route, gameId, gameFetches, jobId, jobFetches, chartError, loading>>

\* no id given yet, nothing requested; useState(null), useState(true)
FetchIdle ==
  /\ route = "replay"
  /\ gameId = NoId
  /\ gameFetches = {}
  /\ jobId = NoId
  /\ jobFetches = {}
  /\ chartError = NoError
  /\ loading = TRUE

\* State of the upload page (the useState hooks of UploadReplay).
VARIABLES
  uploaded,          \* its gameData: NoGame or <<the record extracted from the file>>
  uploadError        \* its error

uploadVars == <<uploaded, uploadError>>

\* useState(null), useState(null)
UploadIdle ==
  /\ uploaded = NoGame
  /\ uploadError = NoError

\* the state outside the replay component proper; the operations of the
\* component on well-formed records leave it alone
aside == <<thrown, chartVars, fetchVars, uploadVars>>

AsideIdle ==
  /\ thrown = "none"
  /\ ChartIdle
  /\ FetchIdle
  /\ UploadIdle

vars == <<gameData, actionList, currentActionIdx, currentRoundIdx, playerStacks,
          playerDeltas, viewMode, error, fetchState, pending, aside>>

\* the hand record held (only used where gameData # NoGame)
Game == gameData[1]

(***************************************************************************)
(* Flattening effect: the action sequences of all rounds, in round order.  *)
(***************************************************************************)
FlattenActions(gd) ==
  Concat([r \in DOMAIN gd.rounds |-> gd.rounds[r].action_sequence])

(***************************************************************************)
(* Stack/delta effect.                                                     *)
(***************************************************************************)
\* gameData.playerMoney?.startingMoney?.[numericPid] || 10000
StartingMoneyOf(gd, pid) ==
  IF gd.playerMoney = NoMoney THEN DefaultMoney
  ELSE OrDefault(gd.playerMoney[1].startingMoney, NumericPid(pid), DefaultMoney)

\* stacks[pid] = startingMoney; deltas[pid] = 0 for every key of playerNames
InitialStacks(gd) ==
  [stacks |-> [pid \in gd.playerNames |-> StartingMoneyOf(gd, pid)],
   deltas |-> [pid \in gd.playerNames |-> 0]]

\* stacks[pid] = (stacks[pid] || startingMoney) - amount;
\* deltas[pid] = (deltas[pid] || 0) - amount
Subtract(sd, gd, pid, amount) ==
  [stacks |-> Put(sd.stacks, pid, OrDefault(sd.stacks, pid, StartingMoneyOf(gd, pid)) - amount),
   deltas |-> Put(sd.deltas, pid, OrDefault(sd.deltas, pid, 0) - amount)]

\* Object.entries(round.bets).forEach(...), keys[k..] still to visit
RECURSIVE SubtractBets(_, _, _, _)
SubtractBets(sd, gd, bets, keys) ==
  IF keys = << >> THEN sd
  ELSE SubtractBets(Subtract(sd, gd, Head(keys), bets[Head(keys)]), gd, bets, Tail(keys))

\* for (i = 0; i <= currentRoundIdx && i < roundKeys.length; i++)
RECURSIVE RoundLoop(_, _, _, _)
RoundLoop(sd, gd, i, ridx) ==
  IF i <= ridx /\ i < Len(gd.rounds)
  THEN LET bets == gd.rounds[i + 1].bets
       IN  RoundLoop(SubtractBets(sd, gd, bets, SortedKeys(DOMAIN bets)), gd, i + 1, ridx)
  ELSE sd

\* action.action === 'CALL' || action.action === 'RAISE' || action.action === 'BET'
SubtractsStack(action) == action.action \in {"CALL", "RAISE", "BET"}

\* for (i = 0; i <= currentActionIdx && i < actionList.length; i++)
RECURSIVE ActionLoop(_, _, _, _, _)
ActionLoop(sd, gd, list, i, aidx) ==
  IF i <= aidx /\ i < Len(list)
  THEN LET action == list[i + 1]
       IN  ActionLoop(IF SubtractsStack(action)
                        THEN Subtract(sd, gd, action.player, action.amount)
                        ELSE sd,
                      gd, list, i + 1, aidx)
  ELSE sd

\* the stacks and deltas the effect sets for the state it closes over
ComputeStacks(gd, list, aidx, ridx, mode) ==
  IF mode = "round" THEN RoundLoop(InitialStacks(gd), gd, 0, ridx)
  ELSE IF Len(list) > 0 THEN ActionLoop(InitialStacks(gd), gd, list, 0, aidx)
  ELSE InitialStacks(gd)

(***************************************************************************)
(* Values derived during a render.  Each ...At operator takes the state    *)
(* the render closes over; the operator named as in the source applies it  *)
(* to the current component state.                                         *)
(***************************************************************************)
\* actionList[i] for a zero-based i: <<action>>, or << >> for undefined
ActionAt(list, i) == IF i + 1 \in DOMAIN list THEN <<list[i + 1]>> ELSE << >>

maxActionIdx == Len(actionList) - 1

NumRounds(gd) == Len(gd.rounds)

maxRoundIdx == NumRounds(Game) - 1

\* for (i = 0; i <= maxActionIndex && i < actionList.length; i++) with a test
\* of the player's actions for one token
RECURSIVE ScanForToken(_, _, _, _, _)
ScanForToken(list, i, maxActionIndex, playerId, token) ==
  IF i <= maxActionIndex /\ i < Len(list)
  THEN IF list[i + 1].player = playerId /\ list[i + 1].action = token
       THEN TRUE
       ELSE ScanForToken(list, i + 1, maxActionIndex, playerId, token)
  ELSE FALSE

\* mutant of ScanLimit: the scan stops at the action cursor in both modes
ScanLimit_AlwaysCursor(list, aidx, mode) == aidx

\* viewMode === 'action' ? currentActionIdx : actionList.length - 1
ScanLimit(list, aidx, mode) == IF mode = "action" THEN aidx ELSE Len(list) - 1

hasPlayerFoldedAt(gd, list, aidx, mode, playerId) ==
  IF gd = NoGame \/ Len(list) = 0 THEN FALSE
  ELSE ScanForToken(list, 0, ScanLimit(list, aidx, mode), playerId, "FOLD")

hasPlayerFolded(playerId) ==
  hasPlayerFoldedAt(gameData, actionList, currentActionIdx, viewMode, playerId)

isPlayerAllInAt(gd, list, aidx, mode, playerId) ==
  IF gd = NoGame \/ Len(list) = 0 THEN FALSE
  ELSE ScanForToken(list, 0, ScanLimit(list, aidx, mode), playerId, "ALL IN")

isPlayerAllIn(playerId) ==
  isPlayerAllInAt(gameData, actionList, currentActionIdx, viewMode, playerId)

\* the side-pot table shown
getCurrentPotsAt(gd, list, aidx, ridx, mode) ==
  IF gd = NoGame \/ ActionAt(list, aidx) = << >> THEN << >>
  ELSE IF mode = "action" THEN ActionAt(list, aidx)[1].total_side_pots_after_action
  ELSE IF ridx + 1 \in DOMAIN gd[1].rounds /\ Len(gd[1].rounds[ridx + 1].action_sequence) > 0
       THEN LET seq == gd[1].rounds[ridx + 1].action_sequence
            IN  seq[Len(seq)].total_side_pots_after_action
       ELSE << >>

getCurrentPots ==
  getCurrentPotsAt(gameData, actionList, currentActionIdx, currentRoundIdx, viewMode)

\* round.action_sequence.some(action => same timestamp, player and action)
ActionFound(round, currentAction) ==
  \E j \in DOMAIN round.action_sequence :
     /\ round.action_sequence[j].timestamp = currentAction.timestamp
     /\ round.action_sequence[j].player = currentAction.player
     /\ round.action_sequence[j].action = currentAction.action

\* for (const roundKey of roundKeys) ... return parseInt(roundKey); the keys
\* of the rounds are "0", "1", ... so the key of rounds[k + 1] is k
RECURSIVE FindActionRound(_, _, _)
FindActionRound(gd, k, currentAction) ==
  IF k >= Len(gd.rounds) THEN 0
  ELSE IF ActionFound(gd.rounds[k + 1], currentAction) THEN k
  ELSE FindActionRound(gd, k + 1, currentAction)

getCurrentActionRound ==
  IF gameData = NoGame \/ Len(actionList) = 0 THEN 0
  ELSE IF ActionAt(actionList, currentActionIdx) = << >> THEN 0
  ELSE FindActionRound(Game, 0, ActionAt(actionList, currentActionIdx)[1])

\* finalBoard.slice(0, n)
Slice(board, n) == SubSeq(board, 1, Min(n, Len(board)))

\* mutant of BoardForRound: the turn already reveals the river card
BoardForRound_TurnShowsRiver(board, completedRounds) ==
  CASE completedRounds = 0 -> << >>
    [] completedRounds = 1 -> Slice(board, 3)
    [] completedRounds = 2 -> Slice(board, 5)
    [] OTHER -> board

\* switch (completedRounds)
BoardForRound(board, completedRounds) ==
  CASE completedRounds = 0 -> << >>
    [] completedRounds = 1 -> Slice(board, 3)
    [] completedRounds = 2 -> Slice(board, 4)
    [] completedRounds = 3 -> Slice(board, 5)
    [] OTHER -> board

getBoardCards ==
  BoardForRound(Game.finalBoard,
                IF viewMode = "action" THEN getCurrentActionRound ELSE currentRoundIdx)

isGameEndAt(gd, list, aidx, ridx, mode) ==
  IF mode = "action" THEN aidx = Len(list) - 1 ELSE ridx = NumRounds(gd) - 1

isGameEnd == isGameEndAt(Game, actionList, currentActionIdx, currentRoundIdx, viewMode)

\* mutant of WinnerLoop: a player whose money did not change counts as a winner
RECURSIVE WinnerLoop_ZeroWins(_, _, _)
WinnerLoop_ZeroWins(info, money, pids) ==
  IF pids = << >> THEN info
  ELSE LET pid == Head(pids)
           finalMoney == OrDefault(money.finalMoney, NumericPid(pid), 0)
           startingMoney == OrDefault(money.startingMoney, NumericPid(pid), 0)
           delta == finalMoney - startingMoney
           entry == [player |-> pid, amount |-> finalMoney, delta |-> delta]
       IN  WinnerLoop_ZeroWins(IF delta >= 0
                                 THEN [info EXCEPT !.winners = Append(@, entry)]
                                 ELSE [info EXCEPT !.losers = Append(@, entry)],
                               money, Tail(pids))

\* one pass of Object.keys(gameData.playerNames).forEach in getWinnerInfo;
\* the money tables are read with `|| 0`
RECURSIVE WinnerLoop(_, _, _)
WinnerLoop(info, money, pids) ==
  IF pids = << >> THEN info
  ELSE LET pid == Head(pids)
           finalMoney == OrDefault(money.finalMoney, NumericPid(pid), 0)
           startingMoney == OrDefault(money.startingMoney, NumericPid(pid), 0)
           delta == finalMoney - startingMoney
           entry == [player |-> pid, amount |-> finalMoney, delta |-> delta]
       IN  WinnerLoop(IF delta > 0
                        THEN [info EXCEPT !.winners = Append(@, entry)]
                        ELSE IF delta < 0
                               THEN [info EXCEPT !.losers = Append(@, entry)]
                               ELSE info,
                      money, Tail(pids))

\* << >> for null, else <<[winners, losers]>>
getWinnerInfo ==
  IF gameData = NoGame \/ Game.playerMoney = NoMoney THEN << >>
  ELSE <<WinnerLoop([winners |-> << >>, losers |-> << >>], Game.playerMoney[1],
                    SortedKeys(Game.playerNames))>>

\* the component renders the replay (neither the error banner nor the spinner)
Rendered == error = NoError /\ gameData # NoGame

\* the winner/loser summary of the rendered page: {isGameEnd() && ... getWinnerInfo()}
WinnerSummary == IF Rendered /\ isGameEnd THEN getWinnerInfo ELSE << >>

(***************************************************************************)
(* Operations.                                                             *)
(***************************************************************************)
\* the initial values of the useState hooks of ReplaySection
ReplayInit ==
  /\ gameData = NoGame
  /\ actionList = << >>
  /\ currentActionIdx = 0
  /\ currentRoundIdx = 0
  /\ playerStacks = EmptyObj
  /\ playerDeltas = EmptyObj
  /\ viewMode = "action"
  /\ error = NoError
  /\ fetchState = "mounted"
  /\ pending = {}

Init ==
  /\ ReplayInit
  /\ AsideIdle

\* setGameData(record): both effects depend on gameData
SetGameData(gd) ==
  /\ gameData' = <<gd>>
  /\ pending' = {"flatten", "stacks"}
  /\ UNCHANGED <<actionList, currentActionIdx, currentRoundIdx, playerStacks,
                 playerDeltas, viewMode, error, aside>>

\* fetchData with uploadedGameData: the uploaded record is used directly
UseUploaded ==
  /\ fetchState = "mounted"
  /\ fetchState' = "done"
  /\ \E gd \in GameRecords : SetGameData(gd)

\* fetchData with a gameId: the request is sent
StartFetch ==
  /\ fetchState = "mounted"
  /\ fetchState' = "awaiting"
  /\ UNCHANGED <<gameData, actionList, currentActionIdx, currentRoundIdx, playerStacks,
                 playerDeltas, viewMode, error, pending, aside>>

\* the request resolves: setGameData(data.game_data)
FetchResolve ==
  /\ fetchState = "awaiting"
  /\ fetchState' = "done"
  /\ \E gd \in GameRecords : SetGameData(gd)

\* the message the catch block sets for a failure with this HTTP status
ErrorMessage(status) ==
  IF status = 403 THEN "This game is private and cannot be accessed."
  ELSE IF status = 404 THEN "Game not found."
  ELSE "Failed to load game data."

\* the request fails
FetchReject ==
  /\ fetchState = "awaiting"
  /\ fetchState' = "done"
  /\ \E status \in {403, 404, 500} : error' = ErrorMessage(status)
  /\ UNCHANGED <<gameData, actionList, currentActionIdx, currentRoundIdx, playerStacks,
                 playerDeltas, viewMode, pending, aside>>

\* fetchData with neither prop: setGameData(null)
NoSource ==
  /\ fetchState = "mounted"
  /\ fetchState' = "done"
  /\ gameData' = NoGame
  /\ UNCHANGED <<actionList, currentActionIdx, currentRoundIdx, playerStacks,
                 playerDeltas, viewMode, error, pending, aside>>

\* The effects of one commit, in the order they are declared, each closing
\* over the state of the render that scheduled it: the flattening effect
\* (new actionList, both cursors to 0), then the stack/delta effect.  A new
\* actionList schedules the stack/delta effect again.
RunEffects ==
  /\ pending # {}
  /\ gameData # NoGame
  /\ IF "flatten" \in pending
       THEN /\ actionList' = FlattenActions(Game)
            /\ currentActionIdx' = 0
            /\ currentRoundIdx' = 0
            /\ pending' = {"stacks"}
       ELSE /\ pending' = {}
            /\ UNCHANGED <<actionList, currentActionIdx, currentRoundIdx>>
  /\ IF "stacks" \in pending
       THEN LET sd == ComputeStacks(Game, actionList, currentActionIdx,
                                    currentRoundIdx, viewMode)
            IN  /\ playerStacks' = sd.stacks
                /\ playerDeltas' = sd.deltas
       ELSE UNCHANGED <<playerStacks, playerDeltas>>
  /\ UNCHANGED <<gameData, viewMode, error, fetchState, aside>>

\* the buttons exist once the replay is rendered; the effects of a render
\* are flushed before the next click is handled
Clickable == Rendered /\ pending = {}

\* a cursor or mode change re-runs the stack/delta effect
SetCursor(aidx, ridx, mode) ==
  /\ currentActionIdx' = aidx
  /\ currentRoundIdx' = ridx
  /\ viewMode' = mode
  /\ pending' = IF <<aidx, ridx, mode>> # <<currentActionIdx, currentRoundIdx, viewMode>>
                  THEN {"stacks"} ELSE {}
  /\ UNCHANGED <<gameData, actionList, playerStacks, playerDeltas, error, fetchState,
                 aside>>

\* Previous (action mode): disabled={currentActionIdx === 0}
ActionPrevious ==
  /\ Clickable /\ viewMode = "action"
  /\ currentActionIdx # 0
  /\ SetCursor(Max(0, currentActionIdx - 1), currentRoundIdx, viewMode)

\* Next (action mode): disabled={currentActionIdx === maxActionIdx}
ActionNext ==
  /\ Clickable /\ viewMode = "action"
  /\ currentActionIdx # maxActionIdx
  /\ SetCursor(Min(maxActionIdx, currentActionIdx + 1), currentRoundIdx, viewMode)

\* Previous (round mode): disabled={currentRoundIdx === 0}
RoundPrevious ==
  /\ Clickable /\ viewMode = "round"
  /\ currentRoundIdx # 0
  /\ SetCursor(currentActionIdx, Max(0, currentRoundIdx - 1), viewMode)

\* Next (round mode): disabled={currentRoundIdx === maxRoundIdx}
RoundNext ==
  /\ Clickable /\ viewMode = "round"
  /\ currentRoundIdx # maxRoundIdx
  /\ SetCursor(currentActionIdx, Min(maxRoundIdx, currentRoundIdx + 1), viewMode)

\* the "Action by Action" button
ShowActionMode == Clickable /\ SetCursor(currentActionIdx, currentRoundIdx, "action")

\* the "Round by Round" button
ShowRoundMode == Clickable /\ SetCursor(currentActionIdx, currentRoundIdx, "round")

Next ==
  \/ UseUploaded
  \/ StartFetch
  \/ FetchResolve
  \/ FetchReject
  \/ NoSource
  \/ RunEffects
  \/ ActionPrevious
  \/ ActionNext
  \/ RoundPrevious
  \/ RoundNext
  \/ ShowActionMode
  \/ ShowRoundMode

Spec == Init /\ [][Next]_vars

\* the effects of the last render have run
Settled == pending = {}

(***************************************************************************)
(* Vocabulary of the claims: what the specification says a value is,       *)
(* stated on the hand record without the component's loops.                *)
(***************************************************************************)
\* startingMoney(p), 10,000 when the entry is absent
DeclaredStart(gd, p) ==
  IF gd.playerMoney # NoMoney /\ NumericPid(p) \in DOMAIN gd.playerMoney[1].startingMoney
  THEN gd.playerMoney[1].startingMoney[NumericPid(p)] ELSE 10000

\* finalMoney(p), 10,000 when the entry is absent
DeclaredFinal(gd, p) ==
  IF gd.playerMoney # NoMoney /\ NumericPid(p) \in DOMAIN gd.playerMoney[1].finalMoney
  THEN gd.playerMoney[1].finalMoney[NumericPid(p)] ELSE 10000

\* number of actions recorded in the rounds 0 .. r
ActionsThroughRound(gd, r) ==
  Cardinality({<<k, j>> \in (1..Len(gd.rounds)) \X (1..Len(actionList)) :
                 k <= r + 1 /\ j \in DOMAIN gd.rounds[k].action_sequence})

\* the one-based positions of the action list at or before the cursor of the
\* active mode (round mode: the actions of the rounds up to the current one)
InScope ==
  IF viewMode = "action"
  THEN {i \in DOMAIN actionList : i <= currentActionIdx + 1}
  ELSE {i \in DOMAIN actionList : i <= ActionsThroughRound(Game, currentRoundIdx)}

\* chips player p has wagered in the actions at the positions S
Wagered(p, S) ==
  LET amt(i) == IF actionList[i].player = p
                     /\ actionList[i].action \in {"CALL", "RAISE", "BET", "ALL-IN"}
                  THEN actionList[i].amount ELSE 0
      sum[T \in SUBSET S] ==
        IF T = {} THEN 0
        ELSE LET i == CHOOSE x \in T : TRUE IN amt(i) + sum[T \ {i}]
  IN  sum[S]

\* the cursor of the active mode points into its list
CursorInRange ==
  IF viewMode = "action" THEN currentActionIdx \in 0..(Len(actionList) - 1)
  ELSE currentRoundIdx \in 0..(NumRounds(Game) - 1)

\* a settled render of the replay
Shown == Rendered /\ Settled

(***************************************************************************)
(* Claims.                                                                 *)
(***************************************************************************)

\* C1: in action mode, at every cursor of the action list, each player's
\* stack is the starting money (10,000 when absent) minus the amounts of the
\* player's CALL, RAISE, BET and ALL-IN actions at or before the cursor.
C1_ActionStackIsStartMinusWagers ==
  (Shown /\ viewMode = "action" /\ CursorInRange) =>
    \A p \in Game.playerNames :
      playerStacks[p] = DeclaredStart(Game, p) - Wagered(p, InScope)

\* C2: the state shown in round mode at round r is the state of action mode
\* with the action cursor on the last action of round r (stacks, deltas,
\* folded and all-in flags, pots).
C2_ModesAgreeAtRoundBoundary ==
  (Shown /\ viewMode = "round" /\ CursorInRange
     /\ Len(Game.rounds[currentRoundIdx + 1].action_sequence) > 0) =>
    LET c  == ActionsThroughRound(Game, currentRoundIdx) - 1
        sd == ComputeStacks(Game, actionList, c, currentRoundIdx, "action")
    IN  /\ playerStacks = sd.stacks
        /\ playerDeltas = sd.deltas
        /\ \A p \in Game.playerNames :
             /\ hasPlayerFolded(p) = hasPlayerFoldedAt(gameData, actionList, c, "action", p)
             /\ isPlayerAllIn(p) = isPlayerAllInAt(gameData, actionList, c, "action", p)
        /\ getCurrentPots = getCurrentPotsAt(gameData, actionList, c, currentRoundIdx, "action")

\* C3: in both modes a player's folded flag is true exactly when one of the
\* player's actions at or before the cursor is FOLD (round mode: in the
\* rounds up to and including the current one).
C3_FoldedIffFoldInScope ==
  Shown =>
    \A p \in Game.playerNames :
      hasPlayerFolded(p) <=>
        \E i \in InScope : actionList[i].player = p /\ actionList[i].action = "FOLD"

\* C4: a player's allIn flag is true exactly when one of the player's
\* actions at or before the cursor has the token ALL-IN.
C4_AllInIffAllInToken ==
  Shown =>
    \A p \in Game.playerNames :
      isPlayerAllIn(p) <=>
        \E i \in InScope : actionList[i].player = p /\ actionList[i].action = "ALL-IN"

\* C5: at every cursor of either mode, each player's delta is the player's
\* stack minus the player's starting money.
C5_DeltaIsStackMinusStart ==
  Shown =>
    \A p \in Game.playerNames :
      playerDeltas[p] = playerStacks[p] - DeclaredStart(Game, p)

\* the pot snapshot of the latest action at or before the cursor
LatestSnapshot ==
  IF InScope = {} THEN << >>
  ELSE LET last == CHOOSE i \in InScope : \A j \in InScope : j <= i
       IN  actionList[last].total_side_pots_after_action

\* C6: the pots shown are the snapshot of the latest action at or before the
\* cursor; in round mode that of the last action of the latest round, up to
\* the current one, that has any action.
C6_PotsOfLatestAction ==
  (Shown /\ CursorInRange) => getCurrentPots = LatestSnapshot

\* C7: replaying every action to the final cursor gives every player a stack
\* equal to the player's finalMoney.
C7_FinalStackIsFinalMoney ==
  (Shown /\ viewMode = "action" /\ CursorInRange
     /\ currentActionIdx = Len(actionList) - 1) =>
    \A p \in Game.playerNames : playerStacks[p] = DeclaredFinal(Game, p)

\* the round the claim assigns to the cursor: in action mode the first round
\* whose sequence holds an action with the timestamp, player and action of
\* the action at the cursor (round 0 when there is none), in round mode the
\* round cursor
ClaimedRound ==
  IF viewMode = "round" THEN currentRoundIdx
  ELSE IF currentActionIdx + 1 \notin DOMAIN actionList THEN 0
  ELSE LET cur == actionList[currentActionIdx + 1]
           holds(k) == \E a \in {Game.rounds[k].action_sequence[j] :
                                   j \in DOMAIN Game.rounds[k].action_sequence} :
                          <<a.timestamp, a.player, a.action>>
                            = <<cur.timestamp, cur.player, cur.action>>
           hits == {k \in DOMAIN Game.rounds : holds(k)}
       IN  IF hits = {} THEN 0 ELSE (CHOOSE k \in hits : \A m \in hits : k <= m) - 1

\* {0,3,4,5}[min(r,3)]
VisibleCount(r) == <<0, 3, 4, 5>>[Min(r, 3) + 1]

\* C8: for every round index r >= 0 the visible community cards are exactly
\* the first {0,3,4,5}[min(r,3)] cards of the five-card final board, r being
\* the round of the action at the cursor (action mode) or the round cursor.
C8_BoardIsPrefixForRound ==
  (Rendered /\ ClaimedRound >= 0) =>
    getBoardCards = [i \in 1..VisibleCount(ClaimedRound) |-> Game.finalBoard[i]]

\* C8 witness: action mode on the river, all five cards visible
C8_Witness ==
  /\ Shown /\ viewMode = "action" /\ CursorInRange
  /\ ClaimedRound = 3
  /\ getBoardCards = Game.finalBoard

\* how often player p is listed in a winner or loser list
Listed(list, p) == Cardinality({i \in DOMAIN list : list[i].player = p})

\* both money entries of player p are recorded
HasMoneyEntries(gd, p) ==
  /\ gd.playerMoney # NoMoney
  /\ NumericPid(p) \in DOMAIN gd.playerMoney[1].startingMoney
  /\ NumericPid(p) \in DOMAIN gd.playerMoney[1].finalMoney

\* C9: the winner/loser summary is produced only with the cursor of the
\* active mode on the last index of that mode; in it every player with
\* finalMoney - startingMoney > 0 is listed exactly once as a winner, every
\* player with a negative difference exactly once as a loser, a player with
\* difference 0 in neither list, and no player in both.
C9_SummaryAtEndPartitionsPlayers ==
  WinnerSummary # << >> =>
    /\ Rendered
    /\ viewMode = "action" => currentActionIdx = Len(actionList) - 1
    /\ viewMode = "round" => currentRoundIdx = NumRounds(Game) - 1
    /\ \A p \in Game.playerNames :
         LET w == Listed(WinnerSummary[1].winners, p)
             l == Listed(WinnerSummary[1].losers, p)
             d == DeclaredFinal(Game, p) - DeclaredStart(Game, p)
         IN  /\ w + l <= 1
             /\ HasMoneyEntries(Game, p) =>
                  /\ w = (IF d > 0 THEN 1 ELSE 0)
                  /\ l = (IF d < 0 THEN 1 ELSE 0)

\* C9 witness: the summary at the last action lists one winner and one loser
\* of a hand in which both players have their money recorded
C9_Witness ==
  /\ Shown /\ viewMode = "action" /\ currentActionIdx = Len(actionList) - 1
  /\ WinnerSummary # << >>
  /\ \A p \in Game.playerNames : HasMoneyEntries(Game, p)
  /\ Len(WinnerSummary[1].winners) = 1
  /\ Len(WinnerSummary[1].losers) = 1

\* C10: an absent startingMoney or finalMoney entry counts as 10,000, in the
\* stack reconstruction and in the winner/loser summary alike.
C10_AbsentMoneyIsTenThousand ==
  /\ Shown => \A p \in Game.playerNames :
       NumericPid(p) \notin DOMAIN (IF Game.playerMoney = NoMoney THEN EmptyObj
                                    ELSE Game.playerMoney[1].startingMoney)
         => playerStacks[p] - playerDeltas[p] = 10000
  /\ WinnerSummary # << >> => \A p \in Game.playerNames :
       LET d == DeclaredFinal(Game, p) - DeclaredStart(Game, p)
           e == [player |-> p, amount |-> DeclaredFinal(Game, p), delta |-> d]
           listed(list) == \E i \in DOMAIN list : list[i] = e
       IN  /\ d > 0 <=> listed(WinnerSummary[1].winners)
           /\ d < 0 <=> listed(WinnerSummary[1].losers)

(***************************************************************************)
(* Partial hand records.  A field the record lacks is a field the TLA+     *)
(* record does not have.  The retrieval path hands data.game_data to the   *)
(* component as it arrives, so every such record can reach it.             *)
(***************************************************************************)
Has(obj, f) == f \in DOMAIN obj

Drop(obj, fs) == [f \in (DOMAIN obj) \ fs |-> obj[f]]

\* the complete record the partial ones are cut from: a bet and a call, one
\* round each, both money tables recorded
PartialBase ==
  LET flat == <<Mv(0, "BET", 20), Mv(1, "CALL", 20)>>
  IN  MkGame(MkRounds(flat, 2, <<1>>, TRUE), MkMoney(flat, 0, Players, Players))

\* the base record without the action sequence of the rounds in noSeq, the
\* bets of the rounds in noBets and the money tables in noMoney
Strip(noSeq, noBets, noMoney) ==
  [PartialBase EXCEPT
     !.rounds = [r \in DOMAIN @ |->
                   Drop(@[r], (IF r \in noSeq THEN {"action_sequence"} ELSE {})
                                \cup (IF r \in noBets THEN {"bets"} ELSE {}))],
     !.playerMoney = <<Drop(@[1], noMoney)>>]

PartialRecords ==
  LET stripped == {Strip(ns, nb, nm) :
                     <<ns, nb, nm>> \in (SUBSET {1, 2}) \X (SUBSET {1, 2})
                                          \X (SUBSET {"startingMoney", "finalMoney"})}
  IN  stripped \cup {Drop(g, {"rounds"}) : g \in stripped}

\* The record as the guarded reads see it: `if (round.action_sequence)` and
\* `currentRound?.action_sequence &&` skip a round without a sequence as they
\* skip an empty one, and `playerMoney?.startingMoney?.[pid] || 10000` reads
\* a missing table as it reads an empty one.  Only defined with rounds.
Filled(gd) ==
  [gd EXCEPT
     !.rounds = [r \in DOMAIN @ |->
                   IF Has(@[r], "action_sequence") THEN @[r]
                   ELSE [f \in (DOMAIN @[r]) \cup {"action_sequence"} |->
                           IF f = "action_sequence" THEN << >> ELSE @[r][f]]],
     !.playerMoney =
        IF @ = NoMoney \/ Has(@[1], "startingMoney") THEN @
        ELSE <<[f \in (DOMAIN @[1]) \cup {"startingMoney"} |->
                  IF f = "startingMoney" THEN EmptyObj ELSE @[1][f]]>>]

\* Object.values(gameData.rounds) of the flattening effect
FlattenRaises(gd) == ~Has(gd, "rounds")

\* Object.entries(round.bets) of the stack/delta effect, round mode
StackEffectRaises(gd, ridx, mode) ==
  /\ mode = "round"
  /\ \/ ~Has(gd, "rounds")
     \/ \E i \in 0..ridx : i < Len(gd.rounds) /\ ~Has(gd.rounds[i + 1], "bets")

\* gameData.playerMoney!.finalMoney[numericPid], .startingMoney[numericPid]
WinnerInfoRaises(gd) ==
  /\ gd.playerMoney # NoMoney
  /\ gd.playerNames # {}
  /\ ~Has(gd.playerMoney[1], "finalMoney") \/ ~Has(gd.playerMoney[1], "startingMoney")

\* a render of the replay: Object.keys(gameData.rounds) of the component
\* body, and getWinnerInfo() where isGameEnd()
RenderRaises(gd, list, aidx, ridx, mode) ==
  \/ ~Has(gd, "rounds")
  \/ isGameEndAt(gd, list, aidx, ridx, mode) /\ WinnerInfoRaises(gd)

\* the request resolves with a partial record: setGameData(data.game_data)
\* and the render that follows
PartialResolve ==
  /\ fetchState = "awaiting"
  /\ fetchState' = "done"
  /\ \E gd \in PartialRecords :
       /\ gameData' = <<gd>>
       /\ IF RenderRaises(gd, actionList, currentActionIdx, currentRoundIdx, viewMode)
            THEN thrown' = "render" /\ pending' = {}
            ELSE thrown' = "none" /\ pending' = {"flatten", "stacks"}
  /\ UNCHANGED <<actionList, currentActionIdx, currentRoundIdx, playerStacks,
                 playerDeltas, viewMode, error, chartVars,
                 fetchVars, uploadVars>>

\* the effects of one commit on a partial record, and the render that
\* follows their state changes
PartialRunEffects ==
  /\ thrown = "none"
  /\ pending # {}
  /\ gameData # NoGame
  /\ LET flatten == "flatten" \in pending
         list == IF flatten THEN FlattenActions(Filled(Game)) ELSE actionList
         aidx == IF flatten THEN 0 ELSE currentActionIdx
         ridx == IF flatten THEN 0 ELSE currentRoundIdx
     IN  IF flatten /\ FlattenRaises(Game)
           THEN /\ thrown' = "flatten effect"
                /\ pending' = {}
                /\ UNCHANGED <<actionList, currentActionIdx, currentRoundIdx,
                               playerStacks, playerDeltas>>
         ELSE IF StackEffectRaises(Game, currentRoundIdx, viewMode)
           THEN /\ thrown' = "stack effect"
                /\ pending' = {}
                /\ UNCHANGED <<actionList, currentActionIdx, currentRoundIdx,
                               playerStacks, playerDeltas>>
         ELSE LET sd == ComputeStacks(Filled(Game), actionList, currentActionIdx,
                                      currentRoundIdx, viewMode)
              IN  /\ actionList' = list
                  /\ currentActionIdx' = aidx
                  /\ currentRoundIdx' = ridx
                  /\ playerStacks' = sd.stacks
                  /\ playerDeltas' = sd.deltas
                  /\ IF RenderRaises(Game, list, aidx, ridx, viewMode)
                       THEN thrown' = "render" /\ pending' = {}
                       ELSE /\ thrown' = "none"
                            /\ pending' = IF flatten THEN {"stacks"} ELSE {}
  /\ UNCHANGED <<gameData, viewMode, error, fetchState, chartVars,
                 fetchVars, uploadVars>>

\* a click on a partial record: the cursor or mode change and its render
PartialClick(aidx, ridx, mode) ==
  /\ thrown = "none"
  /\ Clickable
  /\ currentActionIdx' = aidx
  /\ currentRoundIdx' = ridx
  /\ viewMode' = mode
  /\ IF RenderRaises(Game, actionList, aidx, ridx, mode)
       THEN thrown' = "render" /\ pending' = {}
       ELSE /\ thrown' = "none"
            /\ pending' = IF <<aidx, ridx, mode>>
                               # <<currentActionIdx, currentRoundIdx, viewMode>>
                            THEN {"stacks"} ELSE {}
  /\ UNCHANGED <<gameData, actionList, playerStacks, playerDeltas, error, fetchState,
                 chartVars, fetchVars, uploadVars>>

PartialActionNext ==
  /\ viewMode = "action"
  /\ thrown = "none" /\ Clickable
  /\ currentActionIdx # maxActionIdx
  /\ PartialClick(Min(maxActionIdx, currentActionIdx + 1), currentRoundIdx, viewMode)

PartialRoundNext ==
  /\ viewMode = "round"
  /\ thrown = "none" /\ Clickable
  /\ currentRoundIdx # maxRoundIdx
  /\ PartialClick(currentActionIdx, Min(maxRoundIdx, currentRoundIdx + 1), viewMode)

PartialShowRoundMode == PartialClick(currentActionIdx, currentRoundIdx, "round")

PartialShowActionMode == PartialClick(currentActionIdx, currentRoundIdx, "action")

NextPartial ==
  \/ StartFetch
  \/ PartialResolve
  \/ PartialRunEffects
  \/ PartialActionNext
  \/ PartialRoundNext
  \/ PartialShowRoundMode
  \/ PartialShowActionMode

SpecPartial == Init /\ [][NextPartial]_vars

\* C11: no operation of the reconstruction raises on a partial hand record
\* (rounds missing, a round without action sequence or without bets,
\* playerMoney without startingMoney or finalMoney): the flattening effect,
\* the stack/delta effect in either mode and every render complete.
C11_PartialRecordNeverRaises == thrown = "none"

(***************************************************************************)
(* Numbers of the performance chart.  Scores are integers; means,          *)
(* variances and significances are exact rationals [n, d] in lowest terms  *)
(* with d > 0, so that equal numbers are equal values.  The rounding of    *)
(* binary floating point is not modelled.                                  *)
(***************************************************************************)
Abs(x) == IF x < 0 THEN -x ELSE x

RECURSIVE GCD(_, _)
GCD(a, b) == IF b = 0 THEN a ELSE GCD(b, a % b)

\* the rational n/d (d # 0)
Rat(n, d) ==
  LET g == GCD(Abs(n), Abs(d))
      s == IF d < 0 THEN -1 ELSE 1
  IN  [n |-> (s * n) \div g, d |-> (s * d) \div g]

RInt(k) == [n |-> k, d |-> 1]

RAdd(a, b) == Rat(a.n * b.d + b.n * a.d, a.d * b.d)

RSub(a, b) == Rat(a.n * b.d - b.n * a.d, a.d * b.d)

RMul(a, b) == Rat(a.n * b.n, a.d * b.d)

\* a / b (b # 0)
RDiv(a, b) == Rat(a.n * b.d, a.d * b.n)

RLt(a, b) == a.n * b.d < b.n * a.d

RAbs(a) == [n |-> Abs(a.n), d |-> a.d]

RMax(a, b) == IF RLt(a, b) THEN b ELSE a

\* x || 1
OrOne(x) == IF x.n = 0 THEN RInt(1) ELSE x

\* the largest r in lo..hi with r * r <= n
RECURSIVE ISqrtIn(_, _, _)
ISqrtIn(n, lo, hi) ==
  IF lo = hi THEN lo
  ELSE LET mid == (lo + hi + 1) \div 2
       IN  IF mid * mid <= n THEN ISqrtIn(n, mid, hi) ELSE ISqrtIn(n, lo, mid - 1)

ISqrt(n) == ISqrtIn(n, 0, Min(n, 46340))

\* Math.sqrt(q) for q >= 0: the rational root when q is the square of a
\* rational (exact), otherwise the surd whose radicand is `value`
Root(q) ==
  LET rn == ISqrt(q.n)
      rd == ISqrt(q.d)
  IN  IF rn * rn = q.n /\ rd * rd = q.d
      THEN [exact |-> TRUE, value |-> [n |-> rn, d |-> rd]]
      ELSE [exact |-> FALSE, value |-> q]

RECURSIVE SumOf(_)
SumOf(xs) == IF xs = << >> THEN 0 ELSE Head(xs) + SumOf(Tail(xs))

\* Math.max(...xs), Math.min(...xs) for a non-empty xs
RECURSIVE MaxOf(_)
MaxOf(xs) == IF Len(xs) = 1 THEN xs[1] ELSE Max(Head(xs), MaxOf(Tail(xs)))

RECURSIVE MinOf(_)
MinOf(xs) == IF Len(xs) = 1 THEN xs[1] ELSE Min(Head(xs), MinOf(Tail(xs)))

(***************************************************************************)
(* calculateIterationStats.  The data is the sequence of the users' score  *)
(* series in Object.keys order; a user is named by its position.           *)
(***************************************************************************)
\* Object.keys(data)
UsersOf(data) == [j \in 1..Len(data) |-> j]

\* users.filter(user => data[user] && Array.isArray(data[user]) && data[user].length > 0)
ValidUsers(data) == SelectSeq(UsersOf(data), LAMBDA u : Len(data[u]) > 0)

\* validUsers.map(user => data[user])
UserArrays(data) == [j \in 1..Len(ValidUsers(data)) |-> data[ValidUsers(data)[j]]]

\* Math.max(...arrays.map(a => a.length)) for a non-empty list of arrays
MaxLength(arrays) == MaxOf([j \in 1..Len(arrays) |-> Len(arrays[j])])

\* mutant of ScoresAt: a series that has ended contributes a 0
ScoresAt_ZeroFilled(userArrays, i) ==
  [j \in 1..Len(userArrays) |->
     IF i < Len(userArrays[j]) THEN userArrays[j][i + 1] ELSE 0]

\* the inner loop: scores.push(userArrays[j][i]) where i < userArrays[j].length
\* (every element of a series is a number)
ScoresAt(userArrays, i) ==
  LET has == SelectSeq([j \in 1..Len(userArrays) |-> j],
                       LAMBDA j : i < Len(userArrays[j]))
  IN  [k \in 1..Len(has) |-> userArrays[has[k]][i + 1]]

\* scores.reduce((acc, score) => acc + Math.pow(score - mean, 2), 0)
RECURSIVE SumSquaredDeviations(_, _)
SumSquaredDeviations(scores, mean) ==
  IF scores = << >> THEN RInt(0)
  ELSE LET dev == RSub(RInt(Head(scores)), mean)
       IN  RAdd(RMul(dev, dev), SumSquaredDeviations(Tail(scores), mean))

\* mutant of IterationStat: the sample variance (divisor n - 1)
IterationStat_SampleVariance(i, scores) ==
  LET sum == SumOf(scores)
      mean == Rat(sum, Len(scores))
      variance == IF Len(scores) = 1 THEN RInt(0)
                  ELSE RDiv(SumSquaredDeviations(scores, mean), RInt(Len(scores) - 1))
  IN  [iteration |-> i + 1,
       mean |-> mean,
       variance |-> variance,
       standardDeviation |-> Root(variance),
       range |-> MaxOf(scores) - MinOf(scores),
       scores |-> scores]

\* the IterationStats pushed for index i with the non-empty scores
IterationStat(i, scores) ==
  LET sum == SumOf(scores)
      mean == Rat(sum, Len(scores))
      variance == RDiv(SumSquaredDeviations(scores, mean), RInt(Len(scores)))
  IN  [iteration |-> i + 1,
       mean |-> mean,
       variance |-> variance,
       standardDeviation |-> Root(variance),
       range |-> MaxOf(scores) - MinOf(scores),
       scores |-> scores]

\* for (let i = 0; i < maxIterations; i++): the stats pushed from index i on
RECURSIVE StatsLoop(_, _, _)
StatsLoop(userArrays, i, maxIterations) ==
  IF i < maxIterations
  THEN LET scores == ScoresAt(userArrays, i)
       IN  (IF Len(scores) = 0 THEN << >> ELSE <<IterationStat(i, scores)>>)
             \o StatsLoop(userArrays, i + 1, maxIterations)
  ELSE << >>

calculateIterationStats(data) ==
  IF Len(UsersOf(data)) = 0 THEN << >>
  ELSE IF Len(ValidUsers(data)) = 0 THEN << >>
  ELSE StatsLoop(UserArrays(data), 0, MaxLength(UserArrays(data)))

(***************************************************************************)
(* detectInterestingGames.  Index i is zero-based as in the source; the    *)
(* users are those of validUsers, named by their position in the data.     *)
(***************************************************************************)
\* playerWithMaxChange = '', prevLeader = '', currentLeader = ''
NoUser == 0

\* SIGNIFICANCE_THRESHOLD = 0.3
SIGNIFICANCE_THRESHOLD == Rat(3, 10)

\* Math.abs(current.variance - prev.variance) / (prev.variance || 1)
varianceChange(current, prev) ==
  RDiv(RAbs(RSub(current.variance, prev.variance)), OrOne(prev.variance))

\* Math.abs(current.mean - prev.mean) / (prev.mean || 1)
meanChange(current, prev) ==
  RDiv(RAbs(RSub(current.mean, prev.mean)), OrOne(prev.mean))

\* the iteration is not skipped by
\* if (varianceChange < SIGNIFICANCE_THRESHOLD && meanChange < SIGNIFICANCE_THRESHOLD) continue
PassesPreFilter(current, prev) ==
  ~(/\ RLt(varianceChange(current, prev), SIGNIFICANCE_THRESHOLD)
    /\ RLt(meanChange(current, prev), SIGNIFICANCE_THRESHOLD))

\* mutant of CombinedChange: the percentage change is left out
CombinedChange_AbsoluteOnly(userData, i) ==
  Rat(Abs(userData[i + 1] - userData[i]), 1000)

\* combinedChange of a user with scores at i - 1 and i
CombinedChange(userData, i) ==
  LET currentScore == userData[i + 1]
      prevScore == userData[i]
      absoluteChange == Abs(currentScore - prevScore)
      percentageChange == IF prevScore # 0 THEN Rat(absoluteChange, Abs(prevScore))
                          ELSE RInt(0)
  IN  RMax(Rat(absoluteChange, 1000), percentageChange)

\* the individual player analysis from user j on: the largest combined
\* change, the first user that has it and the kind of the change
RECURSIVE MaxPlayerChange(_, _, _, _)
MaxPlayerChange(data, i, j, best) ==
  IF j > Len(ValidUsers(data)) THEN best
  ELSE LET userData == UserArrays(data)[j]
           found == /\ i < Len(userData)
                    /\ RLt(best.change, CombinedChange(userData, i))
       IN  MaxPlayerChange(data, i, j + 1,
             IF found
               THEN [change |-> CombinedChange(userData, i),
                     player |-> ValidUsers(data)[j],
                     type |-> IF userData[i + 1] > userData[i]
                                THEN "breakthrough" ELSE "collapse"]
               ELSE best)

\* if (maxPlayerChange > 0.4 && playerWithMaxChange): the reason pushed
BreakthroughReasons(data, i) ==
  LET best == MaxPlayerChange(data, i, 1,
                              [change |-> RInt(0), player |-> NoUser, type |-> ""])
  IN  IF RLt(Rat(4, 10), best.change) /\ best.player # NoUser
      THEN <<[reason |-> IF best.type = "breakthrough" THEN "Player Breakthrough"
                         ELSE "Player Collapse",
              significance |-> best.change,
              player |-> best.player]>>
      ELSE << >>

\* [...xs].sort((a, b) => a - b)
RECURSIVE SortAscending(_)
SortAscending(xs) ==
  IF xs = << >> THEN << >>
  ELSE LET rest == SortAscending(Tail(xs))
           below == SelectSeq(rest, LAMBDA y : y <= Head(xs))
           above == SelectSeq(rest, LAMBDA y : y > Head(xs))
       IN  below \o <<Head(xs)>> \o above

\* sortedScores[Math.floor(sortedScores.length * 0.3)]
BottomThreshold(scores) == SortAscending(scores)[(3 * Len(scores)) \div 10 + 1]

\* the comeback detection from user j on (only where i >= 2)
RECURSIVE ComebackReasons(_, _, _, _, _)
ComebackReasons(data, current, prev, i, j) ==
  IF i < 2 \/ j > Len(ValidUsers(data)) THEN << >>
  ELSE LET userData == UserArrays(data)[j]
           oneRoundAgo == userData[i]
           improvement == userData[i + 1] - oneRoundAgo
           fires == /\ i < Len(userData)
                    /\ oneRoundAgo <= BottomThreshold(prev.scores)
                    /\ RLt(RMul(current.mean, Rat(5, 10)), RInt(improvement))
       IN  (IF fires
              THEN <<[reason |-> "Underdog Comeback",
                      significance |-> RDiv(RInt(improvement), OrOne(current.mean)),
                      player |-> ValidUsers(data)[j]]>>
              ELSE << >>)
             \o ComebackReasons(data, current, prev, i, j + 1)

\* the last valid user whose score at index k equals score (NoUser: none)
RECURSIVE LastUserWith(_, _, _, _)
LastUserWith(data, k, score, j) ==
  IF j = 0 THEN NoUser
  ELSE IF k < Len(UserArrays(data)[j]) /\ UserArrays(data)[j][k + 1] = score
         THEN ValidUsers(data)[j]
         ELSE LastUserWith(data, k, score, j - 1)

\* mutant of LeadershipReasons: the size of the loss is not tested
LeadershipReasons_AnyLoss(data, current, prev, i) ==
  LET prevLeader == LastUserWith(data, i - 1, MaxOf(prev.scores), Len(ValidUsers(data)))
      currentLeader == LastUserWith(data, i, MaxOf(current.scores), Len(ValidUsers(data)))
      prevLeaderData == data[prevLeader]
      leadershipLoss == prevLeaderData[i] - prevLeaderData[i + 1]
  IN  IF /\ prevLeader # NoUser /\ currentLeader # NoUser /\ prevLeader # currentLeader
         /\ i < Len(prevLeaderData)
      THEN <<[reason |-> "Leadership Change",
              significance |-> RDiv(RInt(leadershipLoss), OrOne(current.mean)),
              player |-> prevLeader,
              newLeader |-> currentLeader]>>
      ELSE << >>

\* the leader detection
LeadershipReasons(data, current, prev, i) ==
  LET prevLeader == LastUserWith(data, i - 1, MaxOf(prev.scores), Len(ValidUsers(data)))
      currentLeader == LastUserWith(data, i, MaxOf(current.scores), Len(ValidUsers(data)))
      prevLeaderData == data[prevLeader]
      leadershipLoss == prevLeaderData[i] - prevLeaderData[i + 1]
  IN  IF /\ prevLeader # NoUser /\ currentLeader # NoUser /\ prevLeader # currentLeader
         /\ i < Len(prevLeaderData)
         /\ RLt(RMul(current.mean, Rat(3, 10)), RInt(leadershipLoss))
      THEN <<[reason |-> "Leadership Change",
              significance |-> RDiv(RInt(leadershipLoss), OrOne(current.mean)),
              player |-> prevLeader,
              newLeader |-> currentLeader]>>
      ELSE << >>

RECURSIVE SumSignificance(_)
SumSignificance(reasons) ==
  IF reasons = << >> THEN RInt(0)
  ELSE RAdd(SumSignificance(SubSeq(reasons, 1, Len(reasons) - 1)),
            reasons[Len(reasons)].significance)

\* the entry of the iteration at index i after the heuristics have run
GameEntry(stats_, data, i) ==
  LET current == stats_[i + 1]
      prev == stats_[i]
      reasons == BreakthroughReasons(data, i)
                   \o ComebackReasons(data, current, prev, i, 1)
                   \o LeadershipReasons(data, current, prev, i)
  IN  [iteration |-> current.iteration,
       reasons |-> reasons,
       totalSignificance |-> SumSignificance(reasons)]

\* mutant of InterestingMap: the loop runs through the last index
RECURSIVE InterestingMap_ThroughLast(_, _, _)
InterestingMap_ThroughLast(stats_, data, i) ==
  IF i < Len(stats_)
  THEN (IF PassesPreFilter(stats_[i + 1], stats_[i])
          THEN <<GameEntry(stats_, data, i)>> ELSE << >>)
         \o InterestingMap_ThroughLast(stats_, data, i + 1)
  ELSE << >>

\* for (let i = 1; i < stats.length - 1; i++): the entries set from index i
\* on, in the insertion order of the map (the iterations of stats differ)
RECURSIVE InterestingMap(_, _, _)
InterestingMap(stats_, data, i) ==
  IF i < Len(stats_) - 1
  THEN (IF PassesPreFilter(stats_[i + 1], stats_[i])
          THEN <<GameEntry(stats_, data, i)>> ELSE << >>)
         \o InterestingMap(stats_, data, i + 1)
  ELSE << >>

\* mutant of SortBySignificance: the entries are left in iteration order
SortBySignificance_Unsorted(games) == games

\* .sort((a, b) => b.totalSignificance - a.totalSignificance): stable, an
\* entry goes behind the entries that do not have a smaller totalSignificance
RECURSIVE InsertBySignificance(_, _)
InsertBySignificance(sorted, game) ==
  IF sorted = << >> THEN <<game>>
  ELSE IF RLt(Head(sorted).totalSignificance, game.totalSignificance)
         THEN <<game>> \o sorted
         ELSE <<Head(sorted)>> \o InsertBySignificance(Tail(sorted), game)

RECURSIVE SortBySignificance(_)
SortBySignificance(games) ==
  IF games = << >> THEN << >>
  ELSE InsertBySignificance(SortBySignificance(SubSeq(games, 1, Len(games) - 1)),
                            games[Len(games)])

\* the length of the list returned: .slice(0, 10)
TopGames == 10

detectInterestingGames(stats_, data) ==
  IF Len(stats_) < 3 THEN << >>
  ELSE IF Len(ValidUsers(data)) = 0 THEN << >>
  ELSE LET interesting ==
             SortBySignificance(SelectSeq(InterestingMap(stats_, data, 1),
                                          LAMBDA game : Len(game.reasons) > 0))
       IN  SubSeq(interesting, 1, Min(TopGames, Len(interesting)))


(***************************************************************************)
(* The inputs of the analytics functions and the specification that        *)
(* applies them.                                                           *)
(***************************************************************************)
\* longest series of the exhaustive family
MaxSeriesLen == 4

\* two users: every series of the first over three scores, of the second
\* over two
SmallData ==
  {<<a, b>> : <<a, b>> \in SeqsUpTo({0, 20, 23}, MaxSeriesLen)
                             \X SeqsUpTo({3, 20}, MaxSeriesLen)}

\* {"alice": [100, 150, 90], "bob": [100, 80, 200]}
ExampleData == <<<<100, 150, 90>>, <<100, 80, 200>>>>

\* longest series of the long family
MaxLongLen == 14

\* a series that returns to lo at every other index and rises in between
Zigzag(lo, step, len) == [i \in 1..len |-> IF i % 2 = 1 THEN lo ELSE lo + step * i]

\* a series that alternates between lo and hi
Alternating(lo, hi, len) == [i \in 1..len |-> IF i % 2 = 1 THEN lo ELSE hi]

\* long family: a zigzag or alternating series of 12..MaxLongLen scores next
\* to a constant series of the same length or an empty one
LongData ==
  {<<a, [i \in 1..m |-> c]>> :
     <<a, m, c>> \in
       UNION {({Zigzag(lo, st, n) : <<lo, st>> \in {10, 40} \X {1, 5}}
                 \cup {Alternating(lo, hi, n) : <<lo, hi>> \in {10, 40} \X {60, 100}})
                \X {0, n} \X {15, 50} : n \in 12..MaxLongLen}}

\* two users with scores below zero: means of zero and below zero occur
NegativeData ==
  {<<a, b>> : <<a, b>> \in SeqsUpTo({0 - 20, 20}, MaxSeriesLen)
                             \X SeqsUpTo({0 - 10, 20}, MaxSeriesLen)}

\* two users whose scores tie for the maximum at some index
TieData ==
  {<<a, b>> : <<a, b>> \in {<<100, 50, 50>>, <<50, 10, 10>>, <<50, 60, 60>>}
                             \X {<<10, 50, 50>>, <<50, 50, 50>>, <<50, 60, 10>>}}

PerformanceSets ==
  SmallData \cup {ExampleData} \cup LongData \cup NegativeData \cup TieData

InitAnalytics ==
  /\ ReplayInit
  /\ thrown = "none"
  /\ performanceData \in PerformanceSets
  /\ stats = << >>
  /\ interestingGames = << >>
  /\ sampleInterval = 1
  /\ downsampled = << >>
  /\ zoomState = NoZoom
  /\ applied = {}
  /\ FetchIdle
  /\ UploadIdle

replayVars == <<gameData, actionList, currentActionIdx, currentRoundIdx, playerStacks,
                playerDeltas, viewMode, error, fetchState, pending, thrown, uploadVars>>

\* const stats = calculateIterationStats(data)
CalculateStats ==
  /\ "stats" \notin applied
  /\ stats' = calculateIterationStats(performanceData)
  /\ applied' = applied \cup {"stats"}
  /\ UNCHANGED <<performanceData, interestingGames, sampleInterval, downsampled, zoomState,
                 replayVars, fetchVars>>

\* const interesting = detectInterestingGames(stats, data)
DetectGames ==
  /\ "stats" \in applied
  /\ "games" \notin applied
  /\ interestingGames' = detectInterestingGames(stats, performanceData)
  /\ applied' = applied \cup {"games"}
  /\ UNCHANGED <<performanceData, stats, sampleInterval, downsampled, zoomState,
                 replayVars, fetchVars>>

NextAnalytics ==
  \/ CalculateStats
  \/ DetectGames

SpecAnalytics == InitAnalytics /\ [][NextAnalytics]_vars

\* the users whose series has an entry at index i
Contributors(data, i) == {u \in DOMAIN data : Len(data[u]) > i}

\* length of the longest series (0 without users)
Longest(data) ==
  IF data = << >> THEN 0
  ELSE CHOOSE m \in {Len(data[u]) : u \in DOMAIN data} :
         \A u \in DOMAIN data : Len(data[u]) <= m

\* C12: for every index i below the length of the longest series there is
\* exactly one IterationStat with iteration = i + 1; its scores are the
\* values at index i of the users whose series is longer than i, in user
\* order; a shorter or empty series contributes nothing; there are no other
\* stats.
C12_OneStatPerIndexFromContributors ==
  "stats" \in applied =>
    /\ \A k \in DOMAIN stats : stats[k].iteration \in 1..Longest(performanceData)
    /\ \A i \in 0..(Longest(performanceData) - 1) :
         LET at == {k \in DOMAIN stats : stats[k].iteration = i + 1}
             from == Contributors(performanceData, i)
         IN  /\ Cardinality(at) = 1
             /\ \A k \in at :
                  /\ Len(stats[k].scores) = Cardinality(from)
                  /\ \A u \in from :
                       stats[k].scores[Cardinality({v \in from : v <= u})]
                         = performanceData[u][i + 1]

\* stats computed from series of unequal length, one of them empty or ended
C12_Witness ==
  /\ "stats" \in applied
  /\ Len(stats) = 3
  /\ Len(performanceData[2]) = 1
  /\ Len(stats[1].scores) = 2
  /\ Len(stats[3].scores) = 1

\* the square of a value returned by Root
Squared(r) == IF r.exact THEN RMul(r.value, r.value) ELSE r.value

RECURSIVE SumOfSquares(_)
SumOfSquares(xs) == IF xs = << >> THEN 0 ELSE Head(xs) * Head(xs) + SumOfSquares(Tail(xs))

\* C13: every IterationStat with scores x_1..x_n has n >= 1,
\* mean = (sum x)/n, variance = sum (x - mean)^2 / n (divisor n), which is
\* (n * sum x^2 - (sum x)^2) / n^2, standardDeviation >= 0 with
\* standardDeviation^2 = variance, and range = max - min; identical scores
\* give variance 0 and range 0; scores 150 and 80 give 115, 1225, 35.
C13_PopulationStatistics ==
  "stats" \in applied =>
    \A k \in DOMAIN stats :
      LET s == stats[k]
          x == s.scores
          n == Len(x)
          values == {x[j] : j \in DOMAIN x}
      IN  /\ n >= 1
          /\ s.mean.n * n = SumOf(x) * s.mean.d
          /\ s.variance.n * n * n
               = (n * SumOfSquares(x) - SumOf(x) * SumOf(x)) * s.variance.d
          /\ s.standardDeviation.value.n >= 0
          /\ Squared(s.standardDeviation) = s.variance
          /\ \E hi \in values, lo \in values :
               /\ \A v \in values : lo <= v /\ v <= hi
               /\ s.range = hi - lo
          /\ Cardinality(values) = 1 => s.variance = RInt(0) /\ s.range = 0
          /\ x = <<150, 80>> =>
               /\ s.mean = RInt(115)
               /\ s.variance = RInt(1225)
               /\ s.standardDeviation = [exact |-> TRUE, value |-> RInt(35)]

\* the stats of the example series, and a stat of two identical scores
C13_Witness ==
  /\ "stats" \in applied
  /\ performanceData = ExampleData
  /\ stats[2].scores = <<150, 80>>
  /\ stats[2].standardDeviation.exact
  /\ stats[1].scores = <<100, 100>>
  /\ stats[1].variance = RInt(0)

\* the entries with reasons, in iteration order, before sorting and cutting
WithReasons ==
  IF Len(stats) < 3 THEN << >>
  ELSE SelectSeq(InterestingMap(stats, performanceData, 1),
                 LAMBDA game : Len(game.reasons) > 0)

\* C14: the list returned has at most 10 entries, none without reasons, no
\* iteration twice; it is ordered by totalSignificance descending, entries
\* of equal totalSignificance in ascending iteration order; it holds all
\* iterations with reasons when these are at most 10, and otherwise 10 of
\* them such that no iteration left out has a larger totalSignificance than
\* one kept.
C14_TopTenSortedBySignificance ==
  "games" \in applied =>
    LET g == interestingGames
        c == WithReasons
    IN  /\ Len(g) <= 10
        /\ Len(g) = Min(10, Len(c))
        /\ \A k \in DOMAIN g : Len(g[k].reasons) > 0 /\ \E m \in DOMAIN c : c[m] = g[k]
        /\ \A a, b \in DOMAIN g :
             a < b =>
               /\ g[a].iteration # g[b].iteration
               /\ ~RLt(g[a].totalSignificance, g[b].totalSignificance)
               /\ g[a].totalSignificance = g[b].totalSignificance
                    => g[a].iteration < g[b].iteration
        /\ \A m \in DOMAIN c :
             (\A k \in DOMAIN g : g[k] # c[m]) =>
               \A k \in DOMAIN g : ~RLt(g[k].totalSignificance, c[m].totalSignificance)

\* more than 10 iterations have reasons, 10 are kept, two of the kept have
\* the same totalSignificance, and the order differs from iteration order
C14_Witness ==
  /\ "games" \in applied
  /\ Len(WithReasons) > 10
  /\ Len(interestingGames) = 10
  /\ \E a, b \in DOMAIN interestingGames :
       /\ a < b
       /\ interestingGames[a].totalSignificance = interestingGames[b].totalSignificance
  /\ \E a \in 1..9 : interestingGames[a].iteration > interestingGames[a + 1].iteration

(***************************************************************************)
(* The chart memo: downsampleUserData applied to every user's series.      *)
(***************************************************************************)
\* Math.floor of a rational
Floor(q) == q.n \div q.d

\* Math.round(avg * 100) / 100; Math.round(x) is Math.floor(x + 0.5)
RoundToCents(avg) == Rat(Floor(RAdd(RMul(avg, RInt(100)), Rat(1, 2))), 100)

\* mutant of ChunkAverage: the last chunk is averaged as if it were full
ChunkAverage_FullDivisor(data, i, n) ==
  RoundToCents(Rat(SumOf(SubSeq(data, i + 1, Min(i + n, Len(data)))), n))

\* one pass of the loop: chunk = data.slice(i, i + n); avg = sum / chunk.length
ChunkAverage(data, i, n) ==
  LET chunk == SubSeq(data, i + 1, Min(i + n, Len(data)))
  IN  RoundToCents(Rat(SumOf(chunk), Len(chunk)))

\* for (let i = 0; i < data.length; i += n) result.push(...)
RECURSIVE DownsampleLoop(_, _, _)
DownsampleLoop(data, i, n) ==
  IF i < Len(data) THEN <<ChunkAverage(data, i, n)>> \o DownsampleLoop(data, i + n, n)
  ELSE << >>

\* the numbers of the series are held as rationals
downsampleUserData(data, n) ==
  IF n <= 1 THEN [k \in DOMAIN data |-> RInt(data[k])]
  ELSE DownsampleLoop(data, 0, n)

\* downsampled[user] = [0, ...userData] for every user
ChartMemo(data, n) ==
  [u \in DOMAIN data |-> <<RInt(0)>> \o downsampleUserData(data[u], n)]

\* longest series of the exhaustive downsampling family
MaxSamples == 5

\* one user: every series of at most MaxSamples scores, and series of 8
\* scores whose mean can lie half way between two hundredths
DownsampleSets ==
  {<<s>> : s \in SeqsUpTo({0 - 3, 1, 2, 5}, MaxSamples)}
    \cup {<<s>> : s \in [1..8 -> {0, 1}] \cup [1..8 -> {0 - 1, 0}]}
    \cup {<<<<1, 2, 3, 4, 5>>>>}

\* the options of the sample select that differ on these series
SampleOptions == {1, 2, 3, 4, 5, 10}

InitDownsample ==
  /\ ReplayInit
  /\ thrown = "none"
  /\ performanceData \in DownsampleSets
  /\ stats = << >>
  /\ interestingGames = << >>
  /\ sampleInterval = 1
  /\ downsampled = << >>
  /\ zoomState = NoZoom
  /\ applied = {}
  /\ FetchIdle
  /\ UploadIdle

\* the series with the synthetic 0 of the chart in front
Anchored(data) == [u \in DOMAIN data |-> <<0>> \o data[u]]

\* mutant of SelectInterval: the interesting games are computed again, from
\* the series carrying the synthetic 0
SelectInterval_FromAnchored ==
  /\ \E n \in SampleOptions :
       /\ sampleInterval' = n
       /\ downsampled' = ChartMemo(performanceData, n)
  /\ applied' = applied \cup {"chart"}
  /\ interestingGames' =
       detectInterestingGames(calculateIterationStats(Anchored(performanceData)),
                              Anchored(performanceData))
  /\ UNCHANGED <<performanceData, stats, zoomState, replayVars, fetchVars>>

\* onChange={e => setSampleInterval(Number(e.target.value))} and the chart
\* memo of the render that follows
SelectInterval ==
  /\ \E n \in SampleOptions :
       /\ sampleInterval' = n
       /\ downsampled' = ChartMemo(performanceData, n)
  /\ applied' = applied \cup {"chart"}
  /\ UNCHANGED <<performanceData, stats, interestingGames, zoomState, replayVars,
                 fetchVars>>

NextDownsample ==
  \/ SelectInterval

SpecDownsample == InitDownsample /\ [][NextDownsample]_vars

\* q is a whole number of hundredths at most half a hundredth from sum / len
IsRoundedMean(q, sum, len) ==
  /\ 100 % q.d = 0
  /\ Abs(200 * len * q.n - 200 * sum * q.d) <= len * q.d

\* what the chart holds of the downsampled series of every user
DownsampleShape ==
  "chart" \in applied =>
    \A u \in DOMAIN performanceData :
      LET series == performanceData[u]
          n == sampleInterval
          out == Tail(downsampled[u])
      IN  /\ n <= 1 => out = [k \in DOMAIN series |-> RInt(series[k])]
          /\ n > 1 =>
               /\ Len(out) = (Len(series) + n - 1) \div n
               /\ \A k \in 0..(Len(out) - 1) :
                    LET chunk == {j \in DOMAIN series : k * n < j /\ j <= (k + 1) * n}
                    IN  IsRoundedMean(out[k + 1],
                                      SumOf([j \in 1..Cardinality(chunk) |-> series[k * n + j]]),
                                      Cardinality(chunk))
          /\ (series = <<1, 2, 3, 4, 5>> /\ n = 2)
               => out = <<Rat(3, 2), Rat(7, 2), RInt(5)>>

\* C15: downsample(series, n) is the series itself for n <= 1; for n > 1 it
\* has ceil(len / n) values, the k-th being the mean of the k-th chunk of n
\* elements (the last chunk over its own elements only) rounded to two
\* decimals, e.g. [1,2,3,4,5] by 2 gives [1.5, 3.5, 5]; the input series
\* is not modified.
C15_DownsampleChunkMeans ==
  /\ []DownsampleShape
  /\ [][performanceData' = performanceData]_vars

\* a series cut into chunks with a shorter last chunk and a rounded mean
C15_Witness ==
  /\ "chart" \in applied
  /\ sampleInterval = 3
  /\ Len(performanceData[1]) = 5
  /\ Len(downsampled[1]) = 3
  /\ downsampled[1][2] = Rat(33, 100)
  /\ downsampled[1][3] = Rat(7, 2)

(***************************************************************************)
(* The two fetches: get_game_data for the gameId of ReplaySection and      *)
(* get_user_performance for the jobId of UserPerformanceChart.  The id is  *)
(* a prop; when it changes the effect that depends on it runs again.       *)
(***************************************************************************)
GameIds == {"g1", "g2"}

JobIds == {"j1", "j2"}

\* HTTP status of a response: success, or one of the failures
Statuses == {200, 403, 404, 500}

\* the hand record stored for a game id
GameOf(id) ==
  LET flat == IF id = "g1" THEN <<Mv(0, "CHECK", 0), Mv(1, "CHECK", 0)>>
              ELSE <<Mv(0, "BET", 20), Mv(1, "CALL", 20)>>
  IN  MkGame(MkRounds(flat, 1, << >>, TRUE), MkMoney(flat, 0, Players, Players))

\* the score series stored for a job id
JobData(id) ==
  IF id = "j1" THEN ExampleData ELSE <<<<0, 23, 20, 0>>, <<20, 3, 3, 20>>>>

InitFetch ==
  /\ ReplayInit
  /\ thrown = "none"
  /\ ChartIdle
  /\ route \in {"replay", "job"}
  /\ gameId = NoId
  /\ gameFetches = {}
  /\ jobId = NoId
  /\ jobFetches = {}
  /\ chartError = NoError
  /\ loading = TRUE
  /\ UploadIdle

\* no fetch for this id is in flight (at most one per id is modelled)
Idle(fetches, id) == \A m \in fetches : m.id # id

\* the gameId prop changes: the fetchData effect runs again and sends
\* liveAPI.get_game_data(gameId)
ChangeGameId ==
  /\ route = "replay"
  /\ \E id \in GameIds, status \in Statuses :
       /\ id # gameId
       /\ Idle(gameFetches, id)
       /\ gameId' = id
       /\ gameFetches' = gameFetches \cup {[id |-> id, status |-> status]}
  /\ UNCHANGED <<gameData, actionList, currentActionIdx, currentRoundIdx, playerStacks,
                 playerDeltas, viewMode, error, fetchState, pending, thrown, chartVars,
                 uploadVars,
                 route, jobId, jobFetches, chartError, loading>>

\* a get_game_data request resolves: setGameData(data.game_data)
GameResolves ==
  /\ \E m \in gameFetches :
       /\ m.status = 200
       /\ gameFetches' = gameFetches \ {m}
       /\ gameData' = <<GameOf(m.id)>>
  /\ pending' = {"flatten", "stacks"}
  /\ UNCHANGED <<actionList, currentActionIdx, currentRoundIdx, playerStacks,
                 playerDeltas, viewMode, error, fetchState, thrown, chartVars,
                 uploadVars,
                 route, gameId, jobId, jobFetches, chartError, loading>>

\* a get_game_data request fails: the catch block sets the error
GameRejects ==
  /\ \E m \in gameFetches :
       /\ m.status # 200
       /\ gameFetches' = gameFetches \ {m}
       /\ error' = ErrorMessage(m.status)
  /\ UNCHANGED <<gameData, actionList, currentActionIdx, currentRoundIdx, playerStacks,
                 playerDeltas, viewMode, fetchState, pending, thrown, chartVars,
                 uploadVars,
                 route, gameId, jobId, jobFetches, chartError, loading>>

\* fetchPerformanceData up to its await: setLoading(true), setError(null),
\* liveAPI.get_user_performance(jobId)
SendPerformanceRequest(id) ==
  /\ Idle(jobFetches, id)
  /\ loading' = TRUE
  /\ chartError' = NoError
  /\ \E status \in Statuses :
       jobFetches' = jobFetches \cup {[id |-> id, status |-> status]}
  /\ UNCHANGED <<chartVars, replayVars, route, gameId, gameFetches>>

\* the jobId prop changes: the effect calls fetchPerformanceData
ChangeJobId ==
  /\ route = "job"
  /\ \E id \in JobIds :
       /\ id # jobId
       /\ jobId' = id
       /\ SendPerformanceRequest(id)

\* the Retry and the refresh button: onClick={fetchPerformanceData}
Refetch ==
  /\ route = "job"
  /\ jobId # NoId
  /\ ~loading
  /\ UNCHANGED jobId
  /\ SendPerformanceRequest(jobId)

getAutoSampleInterval(dataLength) ==
  IF dataLength >= 100 /\ dataLength < 500 THEN 10
  ELSE IF dataLength >= 500 /\ dataLength < 1000 THEN 25
  ELSE IF dataLength >= 1000 THEN 50
  ELSE 1

\* a get_user_performance request resolves: the rest of the try block, the
\* finally block, and the chart memo of the render that follows
PerformanceResolves ==
  /\ \E m \in jobFetches :
       /\ m.status = 200
       /\ jobFetches' = jobFetches \ {m}
       /\ performanceData' = JobData(m.id)
  /\ stats' = calculateIterationStats(performanceData')
  /\ interestingGames' = detectInterestingGames(stats', performanceData')
  /\ sampleInterval' =
       IF Len(UsersOf(performanceData')) > 0
       THEN getAutoSampleInterval(
              MaxOf([u \in DOMAIN performanceData' |-> Len(performanceData'[u])]))
       ELSE sampleInterval
  /\ downsampled' = ChartMemo(performanceData', sampleInterval')
  /\ applied' = {"stats", "games", "chart"}
  /\ loading' = FALSE
  /\ UNCHANGED <<zoomState, replayVars, route, gameId, gameFetches, jobId, chartError>>

\* the error the catch block of fetchPerformanceData sets for this status
ChartErrorMessage(status) ==
  IF status = 403 THEN "PRIVATE" ELSE "Failed to load performance data"

\* a get_user_performance request fails: catch and finally
PerformanceRejects ==
  /\ \E m \in jobFetches :
       /\ m.status # 200
       /\ jobFetches' = jobFetches \ {m}
       /\ chartError' = ChartErrorMessage(m.status)
  /\ loading' = FALSE
  /\ UNCHANGED <<chartVars, replayVars, route, gameId, gameFetches, jobId>>

NextFetch ==
  \/ ChangeGameId
  \/ GameResolves
  \/ GameRejects
  \/ RunEffects
  \/ ChangeJobId
  \/ Refetch
  \/ PerformanceResolves
  \/ PerformanceRejects

SpecFetch == InitFetch /\ [][NextFetch]_vars

\* this step hands the response m of the fetches to its handler
Delivered(fetches, m) == m \in fetches /\ fetches' = fetches \ {m}

\* C16: the response or failure of a fetch whose id is no longer the
\* requested one changes nothing: not the hand record and the error of the
\* replay, not the performance data, the interesting-games list and the
\* error of the chart; so what is held after all responses is that of the
\* id requested last, in whatever order they arrive.
C16_StaleFetchChangesNothing ==
  [][/\ \A m \in gameFetches :
          (Delivered(gameFetches, m) /\ m.id # gameId) => UNCHANGED <<gameData, error>>
     /\ \A m \in jobFetches :
          (Delivered(jobFetches, m) /\ m.id # jobId)
            => UNCHANGED <<performanceData, interestingGames, chartError>>]_vars

\* the kind of a failure with this HTTP status
KindOf(status) ==
  IF status = 403 THEN "access-denied"
  ELSE IF status = 404 THEN "not-found"
  ELSE "generic"

\* the kind of failure the replay shows for its error message
ReplayOutcome(message) ==
  IF message = "This game is private and cannot be accessed." THEN "access-denied"
  ELSE IF message = "Game not found." THEN "not-found"
  ELSE "generic"

\* the kind of failure the chart shows for its error: the private notice for
\* 'PRIVATE', otherwise the message with the Retry button
ChartOutcome(message) == IF message = "PRIVATE" THEN "access-denied" ELSE "generic"

\* C17: both consumers of a fetch turn a failure into the outcome of its
\* kind, and the three kinds stay apart: access-denied for 403, not-found
\* for 404, generic for every other failure; for the hand-record fetch and
\* for the performance-series fetch alike.
C17_FailureKindsKeptApart ==
  [][/\ \A m \in gameFetches :
          (Delivered(gameFetches, m) /\ m.status # 200)
            => ReplayOutcome(error') = KindOf(m.status)
     /\ \A m \in jobFetches :
          (Delivered(jobFetches, m) /\ m.status # 200)
            => ChartOutcome(chartError') = KindOf(m.status)]_vars

(***************************************************************************)
(* The upload page (UploadReplay) and the two ways a hand record reaches   *)
(* ReplaySection: the uploadedGameData prop and the retrieval by gameId.   *)
(***************************************************************************)
\* a hand record with n players and a board of `cards` cards; a negative
\* number leaves the field out; rounds is left out unless hasRounds
Shaped(hasRounds, n, cards) ==
  Drop([PartialBase EXCEPT !.playerNames = 0..(n - 1),
                           !.finalBoard = SubSeq(@, 1, cards)],
       (IF hasRounds THEN {} ELSE {"rounds"})
         \cup (IF n < 0 THEN {"playerNames"} ELSE {})
         \cup (IF cards < 0 THEN {"finalBoard"} ELSE {}))

Payloads ==
  {Shaped(r, n, c) : <<r, n, c>> \in BOOLEAN \X {0 - 1, 1, 2, 6, 7} \X {0 - 1, 3, 5}}

\* the files offered: json tells whether the type or name is JSON's, text
\* holds the value JSON.parse returns (none: the text does not parse); the
\* record comes bare or wrapped as {game_data: record}
Files ==
  {[json |-> j, text |-> <<p>>] : <<j, p>> \in BOOLEAN \X Payloads}
    \cup {[json |-> TRUE, text |-> <<[game_data |-> p]>>] : p \in Payloads}
    \cup {[json |-> TRUE, text |-> << >>]}

\* the records a retrieval returns here: complete, any player count and board
StoredRecords == {Shaped(TRUE, n, c) : <<n, c>> \in {1, 2, 7} \X {3, 5}}

\* validateGameData (a field that is present has the type the check asks
\* for; the message set for a wrong player count is overwritten by the caller)
validateGameData(data) ==
  IF ~Has(data, "rounds") THEN FALSE
  ELSE IF ~Has(data, "playerNames") THEN FALSE
  ELSE IF ~Has(data, "finalBoard") THEN FALSE
  ELSE LET playerCount == Cardinality(data.playerNames)
       IN  ~(playerCount < 2 \/ playerCount > 6)

\* jsonData.game_data || jsonData
ExtractGameData(jsonData) ==
  IF Has(jsonData, "game_data") THEN jsonData.game_data ELSE jsonData

InitUpload ==
  /\ ReplayInit
  /\ thrown = "none"
  /\ ChartIdle
  /\ route \in {"upload", "replay"}
  /\ gameId = NoId
  /\ gameFetches = {}
  /\ jobId = NoId
  /\ jobFetches = {}
  /\ chartError = NoError
  /\ loading = TRUE
  /\ UploadIdle

\* handleFileUpload with reader.onload; the upload area is shown while the
\* page holds no record
UploadFile ==
  /\ route = "upload"
  /\ uploaded = NoGame
  /\ \E file \in Files :
       IF ~file.json
         THEN /\ uploadError' = "Please upload a valid JSON file."
              /\ UNCHANGED uploaded
       ELSE IF file.text = << >>
         THEN /\ uploadError' = "Invalid JSON file. Please check the file format."
              /\ UNCHANGED uploaded
       ELSE IF validateGameData(ExtractGameData(file.text[1]))
         THEN /\ uploaded' = <<ExtractGameData(file.text[1])>>
              /\ uploadError' = NoError
         ELSE /\ uploadError' = "Invalid game data format. Please check the JSON structure."
              /\ UNCHANGED uploaded
  /\ UNCHANGED <<gameData, actionList, currentActionIdx, currentRoundIdx, playerStacks,
                 playerDeltas, viewMode, error, fetchState, pending, thrown, chartVars,
                 fetchVars>>

\* <ReplaySection uploadedGameData={gameData} /> mounts and its fetchData
\* effect runs setGameData(uploadedGameData)
ShowUploaded ==
  /\ route = "upload"
  /\ uploaded # NoGame
  /\ fetchState = "mounted"
  /\ fetchState' = "done"
  /\ SetGameData(uploaded[1])

\* the Upload Another button: clearData; ReplaySection unmounts
ClearData ==
  /\ route = "upload"
  /\ uploaded # NoGame
  /\ uploaded' = NoGame
  /\ uploadError' = NoError
  /\ gameData' = NoGame
  /\ actionList' = << >>
  /\ currentActionIdx' = 0
  /\ currentRoundIdx' = 0
  /\ playerStacks' = EmptyObj
  /\ playerDeltas' = EmptyObj
  /\ viewMode' = "action"
  /\ error' = NoError
  /\ fetchState' = "mounted"
  /\ pending' = {}
  /\ UNCHANGED <<thrown, chartVars, fetchVars>>

\* the replay page: fetchData sends the request for its gameId
FetchStored ==
  /\ route = "replay"
  /\ StartFetch

\* the request resolves: setGameData(data.game_data)
ResolveStored ==
  /\ fetchState = "awaiting"
  /\ fetchState' = "done"
  /\ \E gd \in StoredRecords : SetGameData(gd)

NextUpload ==
  \/ UploadFile
  \/ ShowUploaded
  \/ ClearData
  \/ FetchStored
  \/ ResolveStored
  \/ RunEffects
  \/ ActionNext
  \/ RoundNext
  \/ ShowRoundMode
  \/ ShowActionMode

SpecUpload == InitUpload /\ [][NextUpload]_vars

\* rounds present, playerNames with 2 to 6 entries, finalBoard of 5 elements
WellShaped(record) ==
  /\ Has(record, "rounds")
  /\ Has(record, "playerNames")
  /\ Cardinality(record.playerNames) \in 2..6
  /\ Has(record, "finalBoard")
  /\ Len(record.finalBoard) = 5

\* C18: on the upload path and on the retrieval path, only a record that
\* passes the shape validation (rounds present, playerNames with 2 to 6
\* entries, finalBoard of exactly 5 elements) is kept by the upload page or
\* given to the replay.
C18_OnlyValidatedRecordsReachReplay ==
  /\ uploaded # NoGame => WellShaped(uploaded[1])
  /\ gameData # NoGame => WellShaped(Game)

(***************************************************************************)
(* The iterations the detector reports.                                    *)
(***************************************************************************)
\* the positions of stats (from 1) whose iteration is the one of the entry
PositionsOf(game) == {i \in DOMAIN stats : stats[i].iteration = game.iteration}

\* C19: every entry returned by detectInterestingGames refers to an interior
\* stat, one that is neither the first nor the last of the stats sequence,
\* and for fewer than 3 stats the result is empty.
C19_OnlyInteriorIterations ==
  "games" \in applied =>
    /\ Len(stats) < 3 => interestingGames = << >>
    /\ \A k \in DOMAIN interestingGames :
         /\ PositionsOf(interestingGames[k]) # {}
         /\ PositionsOf(interestingGames[k]) \subseteq 2..(Len(stats) - 1)

\* entries are returned although the step into the last stat passes the
\* pre-filter as well
C19_Witness ==
  /\ "games" \in applied
  /\ Len(stats) >= 3
  /\ interestingGames # << >>
  /\ PassesPreFilter(stats[Len(stats)], stats[Len(stats) - 1])

\* C20: an iteration appears in the output only if its varianceChange or its
\* meanChange against the stat before it strictly exceeds 0.3; one where
\* both are at most 0.3, exactly 0.3 included, is never listed.
C20_ListedIterationsExceedThreshold ==
  "games" \in applied =>
    \A k \in DOMAIN interestingGames :
      \A i \in PositionsOf(interestingGames[k]) :
        i > 1 =>
          \/ RLt(SIGNIFICANCE_THRESHOLD, varianceChange(stats[i], stats[i - 1]))
          \/ RLt(SIGNIFICANCE_THRESHOLD, meanChange(stats[i], stats[i - 1]))

(***************************************************************************)
(* The reasons the heuristics append, read from the list returned.         *)
(***************************************************************************)
\* the indices i (from 0, as in the code) the loop of the detector
\* evaluates: interior and not skipped by the pre-filter
Evaluated ==
  {i \in 1..(Len(stats) - 2) : PassesPreFilter(stats[i + 1], stats[i])}

\* the reasons listed for index i: those of the entry of stats[i].iteration,
\* none when the list has no such entry
ReasonsAt(i) ==
  LET found == SelectSeq(interestingGames,
                         LAMBDA game : game.iteration = stats[i + 1].iteration)
  IN  IF found = << >> THEN << >> ELSE found[1].reasons

\* what was appended at index i can be read from the list: its entry is
\* there, or no entry was cut by slice(0, 10)
Readable(i) ==
  \/ \E k \in DOMAIN interestingGames : interestingGames[k].iteration = stats[i + 1].iteration
  \/ Len(interestingGames) < TopGames

\* the reasons of the given kinds listed for index i
ReasonsOfKind(i, kinds) == SelectSeq(ReasonsAt(i), LAMBDA r : r.reason \in kinds)

\* the players that have scores at i - 1 and at i
PlayersAt(i) == {u \in DOMAIN performanceData : i < Len(performanceData[u])}

ScoreAt(u, i) == performanceData[u][i + 1]

\* d = score[i] - score[i-1]
DeltaAt(u, i) == ScoreAt(u, i) - ScoreAt(u, i - 1)

\* combined = max(|d| / 1000, |d| / |prevScore|), the second term counting
\* as 0 when prevScore is 0
CombinedAt(u, i) ==
  RMax(Rat(Abs(DeltaAt(u, i)), 1000),
       IF ScoreAt(u, i - 1) = 0 THEN RInt(0)
       ELSE Rat(Abs(DeltaAt(u, i)), Abs(ScoreAt(u, i - 1))))

\* max(|d| / 1000, |d| / |prevScore|) exceeds 0.4 where the quotient by a
\* prevScore of 0 has the value the program's arithmetic gives it: above
\* every bound when d is not 0
QuotientCombinedExceeds(u, i) ==
  IF ScoreAt(u, i - 1) = 0
    THEN DeltaAt(u, i) # 0
    ELSE RLt(Rat(4, 10), RMax(Rat(Abs(DeltaAt(u, i)), 1000),
                              Rat(Abs(DeltaAt(u, i)), Abs(ScoreAt(u, i - 1)))))

PlayerChangeKinds == {"Player Breakthrough", "Player Collapse"}

\* C21 as stated: at an evaluated iteration a Breakthrough/Collapse reason
\* is appended exactly when the largest max(|d|/1000, |d|/|prevScore|) over
\* the players with scores at i-1 and i exceeds 0.4.
C21_FiresOnQuotientCombined ==
  "games" \in applied =>
    \A i \in Evaluated :
      Readable(i) =>
        (Len(ReasonsOfKind(i, PlayerChangeKinds)) = 1
           <=> \E u \in PlayersAt(i) : QuotientCombinedExceeds(u, i))

\* C21 amended: at an evaluated iteration at most one Breakthrough/Collapse
\* reason is appended; it is appended exactly when the largest combined
\* change over the players with scores at i-1 and i exceeds 0.4, the
\* percentage term of combined counting as 0 for a player whose previous
\* score is 0; its significance is that maximum, it names a player
\* attaining it, and its kind is breakthrough when that player's d > 0 and
\* collapse otherwise.
C21_BreakthroughCollapse ==
  "games" \in applied =>
    \A i \in Evaluated :
      Readable(i) =>
        LET rs == ReasonsOfKind(i, PlayerChangeKinds)
        IN  /\ Len(rs) <= 1
            /\ Len(rs) = 1 <=> \E u \in PlayersAt(i) : RLt(Rat(4, 10), CombinedAt(u, i))
            /\ Len(rs) = 1 =>
                 /\ rs[1].player \in PlayersAt(i)
                 /\ rs[1].significance = CombinedAt(rs[1].player, i)
                 /\ \A u \in PlayersAt(i) : ~RLt(rs[1].significance, CombinedAt(u, i))
                 /\ rs[1].reason = IF DeltaAt(rs[1].player, i) > 0
                                     THEN "Player Breakthrough" ELSE "Player Collapse"

\* one evaluated iteration has a breakthrough, and at another a player
\* leaves a score of 0 without a reason of either kind being appended
C21_Witness ==
  /\ "games" \in applied
  /\ \E i \in Evaluated :
       /\ Readable(i)
       /\ Len(ReasonsOfKind(i, {"Player Breakthrough"})) = 1
  /\ \E i \in Evaluated :
       /\ Readable(i)
       /\ ReasonsOfKind(i, PlayerChangeKinds) = << >>
       /\ \E u \in PlayersAt(i) : ScoreAt(u, i - 1) = 0 /\ DeltaAt(u, i) # 0

\* the value at the 30th percentile of the scores at i - 1
PercentileAt(i) == BottomThreshold(stats[i].scores)

\* the players the comeback rule names at index i: scores at i - 1 and i, the
\* earlier one at most the percentile value, improvement above half the mean
ComebackPlayers(i) ==
  {u \in PlayersAt(i) :
     /\ ScoreAt(u, i - 1) <= PercentileAt(i)
     /\ RLt(RMul(stats[i + 1].mean, Rat(1, 2)), RInt(DeltaAt(u, i)))}

\* C22: at every evaluated iteration, the first interior one (i = 1)
\* included, exactly one Underdog Comeback reason is appended for each
\* player with scores at i-1 and i whose score at i-1 is at most the
\* 30th-percentile value of the scores at i-1 and whose improvement exceeds
\* 0.5 * mean[i], with significance improvement / mean[i], and none for any
\* other player.
C22_UnderdogComeback ==
  "games" \in applied =>
    \A i \in Evaluated :
      Readable(i) =>
        LET rs == ReasonsOfKind(i, {"Underdog Comeback"})
        IN  /\ {rs[k].player : k \in DOMAIN rs} = ComebackPlayers(i)
            /\ Len(rs) = Cardinality(ComebackPlayers(i))
            /\ \A k \in DOMAIN rs :
                 RMul(rs[k].significance, stats[i + 1].mean)
                   = RInt(DeltaAt(rs[k].player, i))

\* the players holding the maximum score at index k
LeadersAt(k) ==
  LET holders == {u \in DOMAIN performanceData : k < Len(performanceData[u])}
  IN  {u \in holders : \A v \in holders : ScoreAt(v, k) <= ScoreAt(u, k)}

\* the previous leader's drop score[i-1] - score[i] exceeds 0.3 * mean[i]
DropExceeds(p, i) ==
  RLt(RMul(stats[i + 1].mean, Rat(3, 10)), RInt(0 - DeltaAt(p, i)))

\* the leadership rule applies to p at index i: p holds the maximum at i - 1,
\* another player holds the maximum at i, and p's drop is large enough
LeadershipLost(p, i) ==
  /\ p \in LeadersAt(i - 1) \cap PlayersAt(i)
  /\ \E c \in LeadersAt(i) : c # p
  /\ DropExceeds(p, i)

\* the same where each maximum is held by one player only
LeadershipLostOutright(p, i) ==
  /\ LeadersAt(i - 1) = {p}
  /\ p \in PlayersAt(i)
  /\ \E c \in DOMAIN performanceData : c # p /\ LeadersAt(i) = {c}
  /\ DropExceeds(p, i)

\* C23 as stated: at an evaluated iteration at most one Leadership Change
\* reason is appended; it is appended if and only if the player with the
\* maximum score at i-1 differs from the player with the maximum score at i
\* and the previous leader's drop exceeds 0.3 * mean[i]; its significance
\* is drop / mean[i].
C23_SignificanceIsDropOverMean ==
  "games" \in applied =>
    \A i \in Evaluated :
      Readable(i) =>
        LET rs == ReasonsOfKind(i, {"Leadership Change"})
        IN  /\ Len(rs) <= 1
            /\ Len(rs) = 1 =>
                 /\ LeadershipLost(rs[1].player, i)
                 /\ RMul(rs[1].significance, stats[i + 1].mean)
                      = RInt(0 - DeltaAt(rs[1].player, i))
            /\ (\E p \in DOMAIN performanceData : LeadershipLostOutright(p, i))
                 => Len(rs) = 1

\* C23 amended: at an evaluated iteration at most one Leadership Change
\* reason is appended; when one is appended, the player it names held the
\* maximum at i-1, another player holds the maximum at i and the named
\* player's drop exceeds 0.3 * mean[i]; one is appended whenever this is so
\* with each maximum held by a single player; its significance is
\* drop / mean[i] where mean[i] is not 0 and the drop itself where mean[i]
\* is 0.
C23_LeadershipChange ==
  "games" \in applied =>
    \A i \in Evaluated :
      Readable(i) =>
        LET rs == ReasonsOfKind(i, {"Leadership Change"})
        IN  /\ Len(rs) <= 1
            /\ Len(rs) = 1 =>
                 /\ LeadershipLost(rs[1].player, i)
                 /\ rs[1].significance
                      = IF stats[i + 1].mean = RInt(0)
                          THEN RInt(0 - DeltaAt(rs[1].player, i))
                          ELSE RDiv(RInt(0 - DeltaAt(rs[1].player, i)), stats[i + 1].mean)
            /\ (\E p \in DOMAIN performanceData : LeadershipLostOutright(p, i))
                 => Len(rs) = 1

\* a Leadership Change is listed for an iteration whose mean is 0, and at
\* another evaluated iteration the lead changes without a large enough drop
C23_Witness ==
  /\ "games" \in applied
  /\ \E i \in Evaluated :
       /\ Readable(i)
       /\ Len(ReasonsOfKind(i, {"Leadership Change"})) = 1
       /\ stats[i + 1].mean = RInt(0)
  /\ \E i \in Evaluated :
       /\ Readable(i)
       /\ ReasonsOfKind(i, {"Leadership Change"}) = << >>
       /\ \E p \in LeadersAt(i - 1) \cap PlayersAt(i) : p \notin LeadersAt(i)

\* the sum of the significances of a sequence of reasons
RECURSIVE SignificanceSum(_)
SignificanceSum(reasons) ==
  IF reasons = << >> THEN RInt(0)
  ELSE RAdd(Head(reasons).significance, SignificanceSum(Tail(reasons)))

\* C24: in every entry returned by the detector every reason has a strictly
\* positive significance and totalSignificance is the sum of the
\* significances of its reasons, also for series whose mean at an iteration
\* is zero or negative.
C24_SignificancePositiveAndSummed ==
  "games" \in applied =>
    \A k \in DOMAIN interestingGames :
      /\ \A r \in DOMAIN interestingGames[k].reasons :
           RLt(RInt(0), interestingGames[k].reasons[r].significance)
      /\ interestingGames[k].totalSignificance
           = SignificanceSum(interestingGames[k].reasons)

(***************************************************************************)
(* The snapshot shown and its dependence on record, cursor and mode.       *)
(***************************************************************************)
\* the cursor of the mode shown
Cursor == IF viewMode = "action" THEN currentActionIdx ELSE currentRoundIdx

\* getBoardCards for the state a render closes over
BoardAt(gd, list, aidx, ridx, mode) ==
  BoardForRound(gd.finalBoard,
                IF mode = "action"
                  THEN IF Len(list) = 0 \/ ActionAt(list, aidx) = << >> THEN 0
                       ELSE FindActionRound(gd, 0, ActionAt(list, aidx)[1])
                  ELSE ridx)

\* what a render with this component state displays: the stacks and deltas
\* held in state, the flags, board and pots computed during the render
SnapshotAt(gd, list, aidx, ridx, mode, stacks, deltas) ==
  [stacks |-> stacks,
   deltas |-> deltas,
   folded |-> [p \in gd.playerNames |-> hasPlayerFoldedAt(<<gd>>, list, aidx, mode, p)],
   allIn |-> [p \in gd.playerNames |-> isPlayerAllInAt(<<gd>>, list, aidx, mode, p)],
   board |-> BoardAt(gd, list, aidx, ridx, mode),
   pots |-> getCurrentPotsAt(<<gd>>, list, aidx, ridx, mode)]

\* the snapshot of the current render
Snapshot ==
  SnapshotAt(Game, actionList, currentActionIdx, currentRoundIdx, viewMode,
             playerStacks, playerDeltas)

\* the snapshot as a function of the hand record, the cursor of the mode and
\* the mode alone: the action list is the flattening of the record, the
\* cursor of the other mode is taken as 0
SnapshotOf(gd, cursor, mode) ==
  LET list == FlattenActions(gd)
      aidx == IF mode = "action" THEN cursor ELSE 0
      ridx == IF mode = "round" THEN cursor ELSE 0
      sd == ComputeStacks(gd, list, aidx, ridx, mode)
  IN  SnapshotAt(gd, list, aidx, ridx, mode, sd.stacks, sd.deltas)

\* a Previous/Next step or a mode toggle changes nothing but cursor, mode
\* and what the effects are to refresh
ClickFrame ==
  (pending = {} /\ <<currentActionIdx, currentRoundIdx, viewMode>>'
                     # <<currentActionIdx, currentRoundIdx, viewMode>>)
    => UNCHANGED <<gameData, actionList, fetchState, error, playerStacks, playerDeltas>>

\* C25: once the effects of a render have run, the snapshot shown (stacks,
\* deltas, flags, board, pots) is the function of hand record, cursor and
\* mode, whatever steps and toggles led there; a step or toggle never
\* starts a fetch and never changes the hand record or the action list.
C25_SnapshotIsFunctionOfRecordCursorMode ==
  /\ [](Shown => Snapshot = SnapshotOf(Game, Cursor, viewMode))
  /\ [][ClickFrame]_vars

\* a settled render in round mode past the first round, reached with the
\* action cursor left past the first action
C25_Witness ==
  /\ Shown
  /\ viewMode = "round"
  /\ currentRoundIdx > 0
  /\ currentActionIdx > 0

(***************************************************************************)
(* The performance chart with its controls: fetch, sample select and zoom. *)
(***************************************************************************)
\* the chart and its controls are rendered: not loading, no error, users
ChartShown ==
  /\ ~loading
  /\ chartError = NoError
  /\ Len(UsersOf(performanceData)) > 0

\* the labels a drag over the chart can start and end on (activeLabel; the
\* label 0 is falsy and ignored by handleMouseDown)
ZoomLabels == 1..3

\* handleMouseDown on l, handleMouseMove to r, handleMouseUp: zoom() sets
\* left and right from the reference area of its closure unless both ends
\* are the same (the reference area itself is cleared again)
ZoomRange ==
  /\ route = "job"
  /\ ChartShown
  /\ \E l, r \in ZoomLabels :
       zoomState' = IF l = r THEN zoomState ELSE [left |-> <<l>>, right |-> <<r>>]
  /\ UNCHANGED <<performanceData, stats, interestingGames, sampleInterval, downsampled,
                 applied, replayVars, fetchVars>>

\* zoomOut (button and double click)
ZoomOut ==
  /\ route = "job"
  /\ ChartShown
  /\ zoomState # NoZoom
  /\ zoomState' = NoZoom
  /\ UNCHANGED <<performanceData, stats, interestingGames, sampleInterval, downsampled,
                 applied, replayVars, fetchVars>>

\* the sample select of the rendered chart
ChartSelectInterval ==
  /\ route = "job"
  /\ ChartShown
  /\ SelectInterval

\* the iterations of the chart points kept by the zoom filter
FilteredIterations ==
  LET points == 0..(MaxOf([u \in DOMAIN downsampled |-> Len(downsampled[u])]) - 1)
  IN  IF zoomState = NoZoom THEN points
      ELSE {i \in points : i >= zoomState.left[1] /\ i <= zoomState.right[1]}

InitChart ==
  /\ InitFetch
  /\ route = "job"

NextChart ==
  \/ ChangeJobId
  \/ Refetch
  \/ PerformanceResolves
  \/ PerformanceRejects
  \/ ChartSelectInterval
  \/ ZoomRange
  \/ ZoomOut

SpecChart == InitChart /\ [][NextChart]_vars

\* a change of the sample interval or of the zoom range made from the
\* controls (no response is delivered in the step)
ControlStep ==
  /\ jobFetches' = jobFetches
  /\ sampleInterval' # sampleInterval \/ zoomState' # zoomState

\* C26: the statistics and the interesting-games list held are those of the
\* raw series fetched, without the synthetic leading 0 and without
\* downsampling, and a change of the sample interval or of the zoom range
\* leaves the performance data, the statistics and the list unchanged.
C26_AnalyticsFromRawSeries ==
  /\ [](performanceData # << >> =>
          /\ \E id \in JobIds : performanceData = JobData(id)
          /\ stats = calculateIterationStats(performanceData)
          /\ interestingGames = detectInterestingGames(stats, performanceData))
  /\ [][ControlStep => UNCHANGED <<performanceData, stats, interestingGames>>]_vars

\* a list of interesting games is held while the chart shows a zoomed
\* range of series downsampled with an interval chosen from the select
C26_Witness ==
  /\ ChartShown
  /\ interestingGames # << >>
  /\ sampleInterval = 2
  /\ zoomState # NoZoom
  /\ FilteredIterations # {}
  /\ \E u \in DOMAIN downsampled : Len(downsampled[u]) < Len(performanceData[u])

\* C27: after any sequence of Previous/Next clicks, mode toggles and record
\* loads the action cursor lies in 0 .. max(0, len(actionList) - 1) and the
\* round cursor in 0 .. max(0, number of rounds - 1), also for a hand whose
\* action list or round map is empty.
C27_CursorsWithinBounds ==
  /\ currentActionIdx \in 0..Max(0, Len(actionList) - 1)
  /\ gameData # NoGame => currentRoundIdx \in 0..Max(0, NumRounds(Game) - 1)
  /\ gameData = NoGame => currentRoundIdx = 0

\* C28: an error does not outlive the fetch that failed: when the fetch of
\* the game id requested now succeeds, the replay holds that game and no
\* error, whatever an earlier fetch left behind.
C28_ErrorClearedBySuccessfulFetch ==
  [][\A m \in gameFetches :
       (Delivered(gameFetches, m) /\ m.status = 200 /\ m.id = gameId)
         => /\ gameData' = <<GameOf(gameId)>>
            /\ error' = NoError]_vars

\* C29: whenever a Leadership Change is listed for iteration i, the previous
\* leader it names has a score at i strictly below the maximum score at i,
\* and the new leader it names is another player, one holding that maximum;
\* also when several players tie for the maximum at i-1 or at i.
C29_PreviousLeaderReallyLostLead ==
  "games" \in applied =>
    \A i \in Evaluated :
      Readable(i) =>
        LET rs == ReasonsOfKind(i, {"Leadership Change"})
        IN  \A k \in DOMAIN rs :
              /\ rs[k].player \notin LeadersAt(i)
              /\ rs[k].newLeader # rs[k].player
              /\ rs[k].newLeader \in LeadersAt(i)

\* the cursor of the mode lies within the action list, or the list of
\* rounds, of the record rendered
CursorWithinRecord ==
  IF viewMode = "action"
    THEN FlattenActions(Game) # << >> => currentActionIdx \in 0..(Len(FlattenActions(Game)) - 1)
    ELSE NumRounds(Game) > 0 => currentRoundIdx \in 0..(NumRounds(Game) - 1)

\* C30: in every render of the replay, settled or not, the stacks and deltas
\* displayed are those of the hand record, cursor and mode from which the
\* flags, the board and the pots of that render are computed, the action
\* list used is that of the record rendered, and the cursor lies within it.
C30_EveryRenderConsistent ==
  Rendered =>
    /\ actionList = FlattenActions(Game)
    /\ Snapshot = SnapshotOf(Game, Cursor, viewMode)
    /\ CursorWithinRecord

=============================================================================
